---- MODULE Spec2Model ----
(***************************************************************************)
(* Model of the cleathlete anti-doping classification engine.              *)
(*                                                                         *)
(*   scripts/judge.py         the current engine (judge and its tiers)     *)
(*   scripts/judge_legacy.py  the legacy engine (judge, _section_fallback, *)
(*                            _handle_product_brand)                       *)
(*                                                                         *)
(* The reference tables (DF) and the answers of the RxNav lookup service   *)
(* (SVC) are fixed for a process lifetime and are drawn in Init; a caller  *)
(* then submits queries, and each query is answered by both engines.       *)
(***************************************************************************)
EXTENDS Integers, Sequences, FiniteSets, TLC

\* ------------------------------------------------------------------------
\* Bounds of the model
\* ------------------------------------------------------------------------
MaxIngredients == 3        \* longest list_name of a product row
MaxDoseInput == 2          \* dose_24h inputs are 1..MaxDoseInput
LegacyStackLimit == 7      \* interpreter frames left to the legacy engine
MaxChain == 7              \* longest chain of nested products

\* ------------------------------------------------------------------------
\* Values
\* ------------------------------------------------------------------------
None == "None"             \* Python None for term / period / route
NoDose == 0 - 1            \* Python None for dose_24h and maximum_dose
NoneV == [status |-> "none"]   \* a tier that returns None

NumTok == <<"0.0", "1.0", "2.0", "3.0", "4.0", "5.0", "6.0", "7.0", "8.0", "9.0">>
DoseStr(d) == NumTok[d + 1]

\* ------------------------------------------------------------------------
\* judge.py: utilities
\* ------------------------------------------------------------------------
\* str.strip().lower() on the strings the model feeds in
StripLower(s) ==
  CASE s = " X " -> "x"
    [] s = "X sulfate" -> "x sulfate"
    [] s = "PA" -> "pa"
    [] s = "IN" -> "in"
    [] s = " Out" -> "out"
    [] s = "COMP" -> "comp"
    [] s = "Oral" -> "oral"
    [] s = "PO" -> "po"
    [] s = " " -> ""
    [] OTHER -> s

\* str.strip().upper() on section and sport codes
StripUpper(s) ==
  CASE s = "s9" -> "S9"
    [] s = " p1" -> "P1"
    [] s = "allowed" -> "ALLOWED"
    [] s = "gen" -> "GEN"
    [] s = "arch" -> "ARCH"
    [] OTHER -> s

_norm(s) == IF s = None \/ s = "" THEN "" ELSE StripLower(s)

_out(color, reason) == [status |-> "final", color |-> color, reason |-> reason]

_ask(need, provisional_color, reason) ==
  [status |-> "ask", provisional_color |-> provisional_color, reason |-> reason, need |-> need]

\* matching on the inn column only
_match_inn_no_alias(df, term_norm) == SelectSeq(df, LAMBDA r : r.inn = term_norm)

_match_inn(df, term_norm) ==
  SelectSeq(df, LAMBDA r : r.inn = term_norm \/ term_norm \in r.aliases)

RouteAlias(r) ==
  CASE r = "nasal" -> "intranasal"
    [] r = "nose" -> "intranasal"
    [] r = "skin" -> "dermal"
    [] r = "eye" -> "ophthalmic"
    [] r = "ear" -> "otic"
    [] r = "mouth" -> "oromucosal"
    [] r = "buccal" -> "oromucosal"
    [] r = "gingival" -> "oromucosal"
    [] r = "sublingual" -> "oromucosal"
    [] r = "topical" -> "topical"
    [] r = "inhalation" -> "inhaled"
    [] r = "inhaled" -> "inhaled"
    [] r = "rectum" -> "rectal"
    [] r = "oral" -> "oral"
    [] r = "po" -> "oral"
    [] r = "iv" -> "injectable"
    [] r = "im" -> "injectable"
    [] r = "sc" -> "injectable"
    [] r = "injectable" -> "injectable"
    [] r = "perianal" -> "perianal"
    [] r = "ophthalmological" -> "ophthalmic"
    [] r = "dental-intracanal" -> "dental-intracanal"
    [] OTHER -> r

_canonical_route(route) ==
  IF route = None \/ route = "" THEN None ELSE RouteAlias(_norm(route))

\* a variant that takes every unrecognized value as out-of-competition
_ensure_period_lenient(period) ==
  IF period = None \/ period = "" THEN None
  ELSE LET p == _norm(period) IN
       IF p \in {"in", "in-comp", "incompetition", "in_comp", "comp"} THEN "in" ELSE "out"

_ensure_period(period) ==
  IF period = None \/ period = "" THEN None
  ELSE LET p == _norm(period) IN
       IF p \in {"in", "in-comp", "incompetition", "in_comp", "comp"} THEN "in"
       ELSE IF p \in {"out", "out-comp", "out_comp"} THEN "out"
       ELSE None

PeriodAsk == [field |-> "period", options |-> {"in", "out"}, hint |-> <<"In-competition?">>]
RouteAsk(opts) == [field |-> "route", options |-> opts, hint |-> <<"Select route">>]
DoseAsk(max_dose) == [field |-> "dose_24h", hint |-> <<"24h total dose (max", DoseStr(max_dose), ")">>]

RouteDoseDefaultOptions ==
  {"inhaled", "oral", "injectable", "topical", "nasal", "ophthalmic", "otic", "rectal", "oromucosal"}
S9DefaultOptions ==
  {"inhaled", "oral", "injectable", "rectal", "oromucosal", "nasal", "topical", "ophthalmic",
   "otic", "perianal", "dental-intracanal"}

SecSuffix(head, sec) == IF sec # "" THEN <<head, sec>> ELSE <<head>>

\* ------------------------------------------------------------------------
\* judge.py: the six INN tables
\* ------------------------------------------------------------------------
\* a comparison that also rejects the maximum itself
DoseExceeds_inclusive(dose_24h, max_dose) == dose_24h >= max_dose

\* float(dose_24h) > max_dose
DoseExceeds(dose_24h, max_dose) == dose_24h > max_dose

\* a variant that asks for the dose whenever the record has a maximum
DoseMissing_always(max_dose, dose_24h) == max_dose # NoDose

\* if max_dose is not None and dose_24h is None
DoseMissing(max_dose, dose_24h) == max_dose # NoDose /\ dose_24h = NoDose

RouteDoseTier(r, route, dose_24h) ==
  LET permitted_routes == r.permitted_route
      prohibited_routes == r.prohibited_route
      max_dose == r.maximum_dose
      opts == permitted_routes \cup prohibited_routes
      asks == (IF route = None
               THEN <<RouteAsk(IF opts # {} THEN opts ELSE RouteDoseDefaultOptions)>>
               ELSE <<>>)
              \o (IF DoseMissing(max_dose, dose_24h) THEN <<DoseAsk(max_dose)>> ELSE <<>>)
      rt == _canonical_route(route)
  IN IF asks # <<>> THEN _ask(asks, "yellow", <<"Route and/or dose required.">>)
     ELSE IF prohibited_routes # {} /\ rt \in prohibited_routes
          THEN _out("red", <<"Prohibited by route.">>)
     ELSE IF permitted_routes # {} /\ rt \notin permitted_routes
          THEN _out("red", <<"Unsupported route for this substance.">>)
     ELSE IF max_dose # NoDose /\ DoseExceeds(dose_24h, max_dose)
          THEN _out("red", <<"Dose exceeds limit", DoseStr(dose_24h), DoseStr(max_dose)>>)
     ELSE _out("green", <<"Within permitted route/dose.">>)

S9Rows(DF) == SelectSeq(DF.sections, LAMBDA s : StripUpper(s.section_code) = "S9")

\* a variant that takes the S9 defaults whatever the record declares
UseSectionDefaults_always(own, s9) == s9 # <<>>

\* if not permitted_routes and not prohibited_routes: ... if not s9.empty
UseSectionDefaults(own, s9) == own = {} /\ s9 # <<>>

PeriodRouteTier(DF, r, period, route) ==
  LET p == _ensure_period(period)
      own == r.permitted_route \cup r.prohibited_route
      s9 == S9Rows(DF)
      useS9 == UseSectionDefaults(own, s9)
      permitted_routes == IF useS9 THEN s9[1]._permitted_routes ELSE r.permitted_route
      prohibited_routes == IF useS9 THEN s9[1]._prohibited_routes ELSE r.prohibited_route
      opts == permitted_routes \cup prohibited_routes
      rt == _canonical_route(route)
  IN IF p = None THEN _ask(<<PeriodAsk>>, "yellow", <<"Period required.">>)
     ELSE IF p = "out" THEN _out("green", <<"Out-of-competition permitted.">>)
     ELSE IF route = None
          THEN _ask(<<RouteAsk(IF opts # {} THEN opts ELSE S9DefaultOptions)>>, "yellow",
                    <<"Route required.">>)
     ELSE IF rt \in prohibited_routes THEN _out("red", <<"Prohibited route in-competition.">>)
     ELSE _out("green", <<"Permitted route in-competition.">>)

AlwaysGreenTier(DF, term_norm) ==
  LET row == _match_inn(DF.always_green, term_norm)
  IN IF row # <<>> THEN _out("green", SecSuffix("Always allowed", row[1].section_code))
     ELSE NoneV

AlwaysRedTier(DF, term_norm) ==
  LET row == _match_inn(DF.always_red, term_norm)
  IN IF row # <<>> THEN _out("red", SecSuffix("Always prohibited", row[1].section_code))
     ELSE NoneV

AskRouteAndDoseTier(DF, term_norm, route, dose_24h) ==
  LET row == _match_inn(DF.ask_route_and_dose, term_norm)
  IN IF row # <<>> THEN RouteDoseTier(row[1], route, dose_24h) ELSE NoneV

AskPeriodTier(DF, term_norm, period) ==
  LET row == _match_inn(DF.ask_period, term_norm)
      p == _ensure_period(period)
  IN IF row = <<>> THEN NoneV
     ELSE IF p = None THEN _ask(<<PeriodAsk>>, "yellow", <<"Period required.">>)
     ELSE _out(IF p = "in" THEN "red" ELSE "green", <<row[1].section_code, "period rule.">>)

AskPeriodAndRouteTier(DF, term_norm, period, route) ==
  LET row == _match_inn(DF.ask_period_and_route, term_norm)
  IN IF row # <<>> THEN PeriodRouteTier(DF, row[1], period, route) ELSE NoneV

AskPeriodAndUrineTier(DF, term_norm, period) ==
  LET row == _match_inn(DF.ask_period_and_urine_caution, term_norm)
      p == _ensure_period(period)
  IN IF row = <<>> THEN NoneV
     ELSE IF p = None THEN _ask(<<PeriodAsk>>, "yellow", <<"Period required.">>)
     ELSE IF p = "in" THEN _out("yellow", <<"Urine threshold caution applies in-competition.">>)
     ELSE _out("green", <<"Out-of-competition permitted.">>)

\* the first tier, in the order of the function body, that does not return None
FirstVerdict(vs) ==
  IF \A i \in DOMAIN vs : vs[i] = NoneV THEN NoneV
  ELSE vs[CHOOSE i \in DOMAIN vs : vs[i] # NoneV /\ \A j \in 1..(i - 1) : vs[j] = NoneV]

\* the same tiers with always_red consulted after the conditional tiers
_judge_by_6csv_red_last(DF, term_norm, sport_code, period, route, dose_24h) ==
  FirstVerdict(<<AlwaysGreenTier(DF, term_norm),
                 AskRouteAndDoseTier(DF, term_norm, route, dose_24h),
                 AskPeriodTier(DF, term_norm, period),
                 AskPeriodAndRouteTier(DF, term_norm, period, route),
                 AskPeriodAndUrineTier(DF, term_norm, period),
                 AlwaysRedTier(DF, term_norm)>>)

\* the same tiers with ask_period consulted before ask_route_and_dose
_judge_by_6csv_period_first(DF, term_norm, sport_code, period, route, dose_24h) ==
  FirstVerdict(<<AlwaysGreenTier(DF, term_norm),
                 AlwaysRedTier(DF, term_norm),
                 AskPeriodTier(DF, term_norm, period),
                 AskRouteAndDoseTier(DF, term_norm, route, dose_24h),
                 AskPeriodAndRouteTier(DF, term_norm, period, route),
                 AskPeriodAndUrineTier(DF, term_norm, period)>>)

_judge_by_6csv(DF, term_norm, sport_code, period, route, dose_24h) ==
  FirstVerdict(<<AlwaysGreenTier(DF, term_norm),
                 AlwaysRedTier(DF, term_norm),
                 AskRouteAndDoseTier(DF, term_norm, route, dose_24h),
                 AskPeriodTier(DF, term_norm, period),
                 AskPeriodAndRouteTier(DF, term_norm, period, route),
                 AskPeriodAndUrineTier(DF, term_norm, period)>>)

\* ------------------------------------------------------------------------
\* judge.py: substances_cache
\* ------------------------------------------------------------------------
SportPeriodRule(DF, sport_code) ==
  LET rs == SelectSeq(DF.sports, LAMBDA s : StripUpper(s.sport_code) = StripUpper(sport_code))
  IN IF rs # <<>> THEN StripLower(rs[1].prohibited_period) ELSE "in"

\* "if not p" of the period-dependent sections
PeriodUnset_never(p) == FALSE

PeriodUnset(p) == p = None

_judge_by_cache(DF, term_norm, sport_code, period, route, dose_24h) ==
  LET row == SelectSeq(DF.cache_sub, LAMBDA r : r.inn = term_norm \/ term_norm \in r.aliases)
      sec == StripUpper(row[1].mapped_section_code)
      p == _ensure_period(period)
      s9 == S9Rows(DF)
      permitted_routes == IF s9 # <<>> THEN s9[1]._permitted_routes ELSE {}
      prohibited_routes == IF s9 # <<>> THEN s9[1]._prohibited_routes ELSE {}
      opts == permitted_routes \cup prohibited_routes
      rt == _canonical_route(route)
  IN IF row = <<>> THEN NoneV
     ELSE IF sec = "" THEN NoneV
     ELSE IF sec = "ALLOWED" THEN _out("green", <<"Allowed class (cache).">>)
     ELSE IF sec = "S0" THEN _out("red", <<"Unknown/Unapproved (S0) via cache.">>)
     ELSE IF sec = "P1"
          THEN IF SportPeriodRule(DF, sport_code) = "both"
               THEN _out("red", <<"P1 prohibited in this sport (both).">>)
               ELSE IF p = None THEN _ask(<<PeriodAsk>>, "yellow", <<"Period required for P1.">>)
               ELSE _out(IF p = "in" THEN "red" ELSE "green", <<"P1 period rule.">>)
     ELSE IF sec \in {"S1", "S2", "S3", "S4", "S5"} THEN _out("red", <<sec, "prohibited.">>)
     ELSE IF sec \in {"S6", "S7", "S8"}
          THEN IF PeriodUnset(p) THEN _ask(<<PeriodAsk>>, "yellow", <<sec, "period rule.">>)
               ELSE _out(IF p = "in" THEN "red" ELSE "green", <<sec, "period rule.">>)
     ELSE IF sec = "S9"
          THEN IF PeriodUnset(p) THEN _ask(<<PeriodAsk>>, "yellow", <<"S9 period required.">>)
               ELSE IF p = "out"
                    THEN _out("green", <<"S9 out-of-competition permitted (within label).">>)
               ELSE IF route = None
                    THEN _ask(<<RouteAsk(IF opts # {} THEN opts ELSE S9DefaultOptions)>>, "yellow",
                              <<"S9 route required.">>)
               ELSE IF rt \in prohibited_routes
                    THEN _out("red", <<"S9 prohibited route in-competition.">>)
               ELSE _out("green", <<"S9 permitted route in-competition.">>)
     ELSE NoneV

\* ------------------------------------------------------------------------
\* judge.py: section dispatch of the external fallback
\* ------------------------------------------------------------------------
_judge_by_cachelike_section(DF, sec0, period, route, sport_code) ==
  LET sec == StripUpper(sec0)
      p == _ensure_period(period)
      s9 == S9Rows(DF)
      permitted_routes == IF s9 # <<>> THEN s9[1]._permitted_routes ELSE {}
      prohibited_routes == IF s9 # <<>> THEN s9[1]._prohibited_routes ELSE {}
      opts == permitted_routes \cup prohibited_routes
      rt == _canonical_route(route)
  IN IF sec = "ALLOWED" THEN _out("green", <<"Allowed class.">>)
     ELSE IF sec = "S0" THEN _out("red", <<"Unknown/Unapproved (S0).">>)
     ELSE IF sec = "P1"
          THEN IF SportPeriodRule(DF, sport_code) = "both"
               THEN _out("red", <<"P1 prohibited in this sport (both).">>)
               ELSE IF p = None THEN _ask(<<PeriodAsk>>, "yellow", <<"Period required for P1.">>)
               ELSE _out(IF p = "in" THEN "red" ELSE "green", <<"P1 period rule.">>)
     ELSE IF sec \in {"S1", "S2", "S3", "S4", "S5"} THEN _out("red", <<sec, "prohibited.">>)
     ELSE IF sec \in {"S6", "S7", "S8"}
          THEN IF PeriodUnset(p) THEN _ask(<<PeriodAsk>>, "yellow", <<sec, "period rule.">>)
               ELSE _out(IF p = "in" THEN "red" ELSE "green", <<sec, "period rule.">>)
     ELSE IF sec = "S9"
          THEN IF PeriodUnset(p) THEN _ask(<<PeriodAsk>>, "yellow", <<"S9 period required.">>)
               ELSE IF p = "out"
                    THEN _out("green", <<"S9 out-of-competition permitted (within label).">>)
               ELSE IF route = None
                    THEN _ask(<<RouteAsk(IF opts # {} THEN opts ELSE S9DefaultOptions)>>, "yellow",
                              <<"S9 route required.">>)
               ELSE IF rt \in prohibited_routes
                    THEN _out("red", <<"S9 prohibited route in-competition.">>)
               ELSE _out("green", <<"S9 permitted route in-competition.">>)
     ELSE _out("red", <<"Unknown section (S0).">>)

\* ------------------------------------------------------------------------
\* judge.py: RxNorm / RxClass lookups.  SVC.requests is whether the HTTP
\* library was importable; every response is [ok, ...] where ok = FALSE
\* stands for a timeout, an unreachable host or a malformed body, i.e.
\* anything that raises inside the try block.
\* ------------------------------------------------------------------------
_rxnorm_find_rxcui(SVC, name) ==
  LET exact == SVC.exact[name]
      approx == SVC.approx[name]
  IN IF ~SVC.requests THEN None
     ELSE IF ~exact.ok THEN None
     ELSE IF exact.ids # <<>> THEN exact.ids[1]
     ELSE IF ~approx.ok THEN None
     ELSE IF approx.ids # <<>> THEN approx.ids[1]
     ELSE None

_rxnorm_related_in(SVC, rxcui) ==
  IF ~SVC.requests THEN <<>>
  ELSE IF ~SVC.related[rxcui].ok THEN <<>>
  ELSE SVC.related[rxcui].ins

_rxclass_labels_by_rxcui(SVC, rxcui) ==
  IF ~SVC.requests THEN {}
  ELSE IF ~SVC.classes[rxcui].ok THEN {}
  ELSE {StripLower(lab) : lab \in SVC.classes[rxcui].labels \ {""}}

_map_labels_to_section(DF, labels) ==
  LET rows == SelectSeq(DF.classes_map, LAMBDA r : r._label_norm \in labels)
  IN IF labels = {} \/ DF.classes_map = <<>> THEN None
     ELSE IF rows # <<>> THEN StripUpper(rows[1].mapped_section_code)
     ELSE None

\* any non-empty label set counts as allowed
_labels_allowed_any(DF, labels) == labels # {}

_labels_allowed(DF, labels) ==
  IF DF.allowed_class = <<>> \/ labels = {} THEN FALSE
  ELSE SelectSeq(DF.allowed_class, LAMBDA r : r._label_norm \in labels) # <<>>

\* ------------------------------------------------------------------------
\* judge.py: product decomposition, external fallback and judge.
\* Every operator of the recursion returns [res, calls]: res is the value
\* the Python function returns and calls is the set of _depth values with
\* which judge has been entered while computing it.
\* ------------------------------------------------------------------------
MAX_DEPTH == 5

Dedup(asks) ==
  SelectSeq([i \in 1..Len(asks) |->
               IF \E j \in 1..(i - 1) : asks[j].field = asks[i].field THEN NoneV ELSE asks[i]],
            LAMBDA n : n # NoneV)

NeedsReason(inn, need) == <<inn, "needs">> \o [i \in 1..Len(need) |-> need[i].field]
JoinReason(reasons, r) == IF reasons = <<>> THEN r ELSE reasons \o <<"/">> \o r

\* a loop that never returns early
ShortCircuits_never(res) == FALSE

\* if res["color"] == "red"
ShortCircuits(res) == res.color = "red"

\* a loop that returns its own red verdict, built from the ingredient's
ShortCircuitResult_wrapped(inn, res) == _out("red", <<inn>> \o res.reason)

\* return res
ShortCircuitResult(inn, res) == res

\* a nested call that counts two levels
NestedDepth_two(depth) == depth + 2

\* _depth=depth+1
NestedDepth(depth) == depth + 1

\* a limit that is one level late
DepthExceeded_late(_depth) == _depth > MAX_DEPTH + 1

\* if _depth > 5
DepthExceeded(_depth) == _depth > MAX_DEPTH

RECURSIVE judgeT(_, _, _, _, _, _, _, _)
RECURSIVE ComponentLoop(_, _, _, _, _, _, _, _, _, _, _, _)

\* the for loop over the ingredients and the aggregation after it
ComponentLoop(DF, SVC, inns, i, sport_code, period, route, dose_24h, depth, reasons, asks, calls) ==
  IF i > Len(inns)
  THEN [res |-> IF asks # <<>> THEN _ask(Dedup(asks), "yellow", reasons)
                ELSE _out("green", IF reasons # <<>> THEN reasons ELSE <<"All components allowed">>),
        calls |-> calls]
  ELSE LET r == judgeT(DF, SVC, inns[i], sport_code, period, route, dose_24h, NestedDepth(depth))
           res == r.res
       IN IF res.status = "ask"
          THEN ComponentLoop(DF, SVC, inns, i + 1, sport_code, period, route, dose_24h, depth,
                             JoinReason(reasons, NeedsReason(inns[i], res.need)),
                             asks \o res.need, calls \cup r.calls)
          ELSE IF ShortCircuits(res)
               THEN [res |-> ShortCircuitResult(inns[i], res), calls |-> calls \cup r.calls]
          ELSE ComponentLoop(DF, SVC, inns, i + 1, sport_code, period, route, dose_24h, depth,
                             JoinReason(reasons, <<inns[i]>> \o res.reason),
                             asks, calls \cup r.calls)

_judge_by_brand_cache(DF, SVC, term_norm, sport_code, period, route, dose_24h, depth) ==
  LET row == SelectSeq(DF.cache_prod, LAMBDA r : r.brand_name = term_norm \/ term_norm \in r.aliases)
  IN IF row = <<>> THEN [res |-> NoneV, calls |-> {}]
     ELSE IF row[1].list_name = <<>> THEN [res |-> NoneV, calls |-> {}]
     ELSE ComponentLoop(DF, SVC, row[1].list_name, 1, sport_code, period, route, dose_24h, depth,
                        <<>>, <<>>, {})

\* a variant that lets the Allowed-Class set win over the Classification Map
UseMappedSection_unless_allowed(sec, allowed) == sec # None /\ sec # "" /\ ~allowed

\* if sec: (tested before _labels_allowed)
UseMappedSection(sec, allowed) == sec # None /\ sec # ""

_judge_by_external(DF, SVC, term_norm, sport_code, period, route, dose_24h, depth) ==
  LET rxcui == _rxnorm_find_rxcui(SVC, term_norm)
      ins == _rxnorm_related_in(SVC, rxcui)
      rxcui_in == IF ins # <<>> THEN ins[1].rxcui ELSE rxcui
      labels == _rxclass_labels_by_rxcui(SVC, rxcui_in)
      sec == IF labels # {} THEN _map_labels_to_section(DF, labels) ELSE None
  IN IF rxcui = None
     THEN [res |-> _out("red", <<"Not found in external data (S0). Possibly unapproved.">>),
           calls |-> {}]
     ELSE IF Len(ins) >= 2
          THEN ComponentLoop(DF, SVC, [k \in 1..Len(ins) |-> ins[k].inn], 1, sport_code, period,
                             route, dose_24h, depth, <<>>, <<>>, {})
     ELSE IF UseMappedSection(sec, _labels_allowed(DF, labels))
          THEN [res |-> _judge_by_cachelike_section(DF, sec, period, route, sport_code),
                calls |-> {}]
     ELSE IF _labels_allowed(DF, labels)
          THEN [res |-> _out("green", <<"Allowed pharmacologic class.">>), calls |-> {}]
     ELSE [res |-> _out("red", <<"Unknown/Unmapped class (S0).">>), calls |-> {}]

judgeT(DF, SVC, term, sport_code, period, route, dose_24h, _depth) ==
  LET t == _norm(term)
      p == _ensure_period(period)
      rt == _canonical_route(route)
      csv == _judge_by_6csv(DF, t, sport_code, p, rt, dose_24h)
      cache == _judge_by_cache(DF, t, sport_code, p, rt, dose_24h)
      brand == _judge_by_brand_cache(DF, SVC, t, sport_code, p, rt, dose_24h, _depth)
      ext == IF SVC.requests
             THEN _judge_by_external(DF, SVC, t, sport_code, p, rt, dose_24h, _depth)
             ELSE [res |-> NoneV, calls |-> {}]
  IN IF DepthExceeded(_depth)
     THEN [res |-> _out("red", <<"Recursion limit reached.">>), calls |-> {_depth}]
     ELSE IF csv # NoneV THEN [res |-> csv, calls |-> {_depth}]
     ELSE IF cache # NoneV THEN [res |-> cache, calls |-> {_depth}]
     ELSE IF brand.res # NoneV THEN [res |-> brand.res, calls |-> {_depth} \cup brand.calls]
     ELSE IF ext.res # NoneV
          THEN [res |-> ext.res, calls |-> {_depth} \cup brand.calls \cup ext.calls]
     ELSE [res |-> _out("red", <<"Not found (S0). Possibly unapproved.">>),
           calls |-> {_depth} \cup brand.calls \cup ext.calls]

judge(DF, SVC, term, sport_code, period, route, dose_24h) ==
  judgeT(DF, SVC, term, sport_code, period, route, dose_24h, 0).res

\* ------------------------------------------------------------------------
\* judge_legacy.py.  An uncaught Python exception is the result
\* [status |-> "exception", kind |-> ...]; it propagates through every
\* caller because the module has no try block.  Classification codes (ATC)
\* are sequences of characters.
\* ------------------------------------------------------------------------
Raise(kind) == [status |-> "exception", kind |-> kind]

\* norm: lower, strip, remove salt words, collapse white space
norm(term) ==
  LET t == StripLower(term)
  IN CASE t = "x sulfate" -> "x"
       [] OTHER -> t

IsPrefix(p, code) == Len(p) <= Len(code) /\ SubSeq(code, 1, Len(p)) = p

\* SECTIONS_PREFIX_MAP: a later row overwrites an earlier one on the same token
SECTIONS_PREFIX_MAP(DF) ==
  LET toks == UNION {DF.sections[i].atc_code_prefix : i \in DOMAIN DF.sections}
      last(tok) == CHOOSE i \in DOMAIN DF.sections :
                     /\ tok \in DF.sections[i].atc_code_prefix
                     /\ \A j \in DOMAIN DF.sections :
                          tok \in DF.sections[j].atc_code_prefix => j <= i
  IN [tok \in toks |-> DF.sections[last(tok)].section_code]

\* the keys sorted by ascending length: the shortest key wins
FirstPrefix_shortest(keys, code) ==
  LET hits == {k \in keys : IsPrefix(k, code)}
  IN IF hits = {} THEN <<>>
     ELSE CHOOSE k \in hits : \A h \in hits : Len(k) <= Len(h)

\* the first key, in descending length, that the code starts with
FirstPrefix(keys, code) ==
  LET hits == {k \in keys : IsPrefix(k, code)}
  IN IF hits = {} THEN <<>>
     ELSE CHOOSE k \in hits : \A h \in hits : Len(h) <= Len(k)

HasPrefix(keys, code) == \E k \in keys : IsPrefix(k, code)

LegacyS9RedRoutes ==
  {"oral", "injectable", "rectal", "oromucosal", "buccal", "gingival", "sublingual"}

_section_fallback(DF, atc_code, period, route) ==
  LET code == atc_code
      mp == SECTIONS_PREFIX_MAP(DF)
      hit == HasPrefix(DOMAIN mp, code)
      matched_prefix == FirstPrefix(DOMAIN mp, code)
      section == IF hit THEN mp[matched_prefix] ELSE ""
  IN IF section \in {"S1", "S2", "S3", "S4", "S5"}
     THEN _out("red", <<section, "class (ATC">> \o matched_prefix \o <<")">>)
     ELSE IF section \in {"S6", "S7", "S8"}
          THEN _out(IF period = "in" THEN "red" ELSE "green",
                    <<section, "period rule (ATC">> \o matched_prefix \o <<")">>)
     ELSE IF section = "S9" /\ period = "in" /\ route \in LegacyS9RedRoutes
          THEN _out("red", <<"S9 prohibited route in-competition (ATC">> \o matched_prefix \o <<")">>)
     ELSE IF section = "S9"
          THEN _out("green", <<"S9 permitted (ATC">> \o matched_prefix \o <<")">>)
     ELSE IF HasPrefix(DF.allowed_atc, code)
          THEN _out("green", <<"Allowed ATC class (">> \o FirstPrefix(DF.allowed_atc, code) \o <<")">>)
     ELSE _out("red", <<"Unknown ATC class (S0-like)">>)

\* "S0" in reason: a token whose text contains S0, or the characters S, 0
\* next to each other in a spliced classification prefix
S0Tokens ==
  {"Unknown ATC class (S0-like)", "ATC not found via RxNorm (S0-like). Please verify.",
   "Not found in RxNorm (S0). Possibly unapproved.", "S0"}

HasS0(reason) ==
  \/ \E i \in DOMAIN reason : reason[i] \in S0Tokens
  \/ \E i \in 1..(Len(reason) - 1) : reason[i] = "S" /\ reason[i + 1] = "0"

\* rxnorm_find_rxcui / rxnorm_lookup: any failed request raises
rxnorm_lookup(SVC, term) ==
  LET exact == SVC.exact[term]
      approx == SVC.approx[term]
      rxcui == IF exact.ids # <<>> THEN exact.ids[1]
               ELSE IF approx.ids # <<>> THEN approx.ids[1] ELSE None
      prop == SVC.props[rxcui]
      rel == SVC.related[rxcui]
      ingred == rel.ins
      own == SVC.classes[rxcui]
      ing == SVC.classes[ingred[1].rxcui]
  IN IF ~exact.ok THEN Raise("RequestException")
     ELSE IF exact.ids = <<>> /\ ~approx.ok THEN Raise("RequestException")
     ELSE IF rxcui = None THEN [kind |-> "none"]
     ELSE IF ~prop.ok \/ ~rel.ok THEN Raise("RequestException")
     ELSE IF ingred = <<>> /\ prop.tty = "IN"
          THEN IF ~own.ok THEN Raise("RequestException")
               ELSE [kind |-> "single", atc |-> own.code]
     ELSE IF Len(ingred) >= 2
          THEN [kind |-> "combo", compositions |-> [k \in 1..Len(ingred) |-> ingred[k].inn]]
     ELSE IF Len(ingred) = 1
          THEN IF ~ing.ok THEN Raise("RequestException")
               ELSE [kind |-> "single", atc |-> ing.code]
     ELSE [kind |-> "none"]

LegacyRow(df, t) == SelectSeq(df, LAMBDA r : r.inn = t)

LegacyRouteDose(r, period, route, dose_24h) ==
  IF route = None \/ route = ""
  THEN _ask(<<[field |-> "route", options |-> {r.permitted_route},
               hint |-> <<"Select administration route">>]>>, "yellow", <<"S3 requires route check">>)
  \* the permitted_route cell is compared as one string
  ELSE IF r.permitted_route # {} /\ r.permitted_route # {route}
       THEN _out("red", <<"Prohibited route for S3">>)
  ELSE IF dose_24h = NoDose
       THEN _ask(<<[field |-> "dose_24h", hint |-> <<"24h total dose (max">>]>>, "yellow",
                 <<"S3 requires 24h dose check">>)
  ELSE IF r.maximum_dose = NoDose THEN Raise("ValueError")
  ELSE IF dose_24h > r.maximum_dose THEN _out("red", <<"24h dose exceeds limit">>)
  ELSE IF r.has_urine_column /\ period = None
       THEN _ask(<<PeriodAsk>>, "yellow", <<"Urine threshold warning applies in-competition">>)
  ELSE IF r.has_urine_column /\ period = "in"
       THEN IF r.urine_threshold_ng_ml = NoDose THEN Raise("ValueError")
            ELSE _out("yellow", <<"In-competition urine >", DoseStr(r.urine_threshold_ng_ml),
                                  "ng/mL => AAF unless PK study">>)
  ELSE _out("green", <<"Within inhaled dose limit">>)

LegacyPeriod(DF, row, sport_code_norm, period) ==
  LET sec == row.section_code
      hit == SelectSeq(DF.sports, LAMBDA s : s.prohibited_section = "P1"
                                             /\ StripUpper(s.sport_code) = sport_code_norm)
      sport_periodo == IF hit # <<>> THEN hit[1].prohibited_periodo ELSE row.prohibited_period
  IN IF sec = "P1"
     THEN IF hit # <<>> /\ hit[1].prohibited_periodo = None THEN Raise("AttributeError")
          ELSE IF sport_periodo = "both"
               THEN _out("red", <<"P1 beta-blocker prohibited in this sport (both)">>)
          ELSE IF period = None THEN _ask(<<PeriodAsk>>, "yellow", <<"P1 period rule">>)
          ELSE _out(IF period = "in" THEN "red" ELSE "green", <<"P1 period rule (in only)">>)
     ELSE IF period = None THEN _ask(<<PeriodAsk>>, "yellow", <<sec, "period rule">>)
     ELSE _out(IF period = "in" THEN "red" ELSE "green", <<sec, "period rule">>)

LegacyPeriodRoute(pr, period, route) ==
  IF period = None THEN _ask(<<PeriodAsk>>, "yellow", <<"Route/period rule">>)
  ELSE IF period = "out" THEN _out("green", <<"Out-of-competition allowed">>)
  ELSE IF route = None \/ route = ""
       THEN _ask(<<[field |-> "route", options |-> pr.permitted_route,
                    hint |-> <<"Select administration route">>]>>, "yellow",
                 <<"In-competition requires route decision">>)
  ELSE IF route \in pr.prohibited_route THEN _out("red", <<"Prohibited route in-competition">>)
  ELSE _out("green", <<"Permitted route in-competition">>)

LegacyPeriodUrine(row, period) ==
  IF period = None THEN _ask(<<PeriodAsk>>, "yellow", <<"Urine threshold rule">>)
  ELSE IF period = "in"
       THEN IF row.urine_threshold_ng_ml = NoDose THEN Raise("ValueError")
            ELSE _out("yellow", <<"In-competition urine >", DoseStr(row.urine_threshold_ng_ml),
                                  "ng/mL => AAF">>)
  ELSE _out("green", <<"Out-of-competition allowed">>)

RECURSIVE judge_legacy(_, _, _, _, _, _, _, _)
RECURSIVE LegacyLoop(_, _, _, _, _, _, _, _, _, _, _, _, _)

\* the for loop of _handle_product_brand and the code after it
LegacyLoop(DF, SVC, inns, i, sport_code, period, route, dose_24h, fuel, final_color, reasons, needs, unknown_components) ==
  IF i > Len(inns)
  THEN IF needs # <<>>
       THEN [status |-> "ask", provisional_color |-> final_color,
             reason |-> IF reasons # <<>> THEN reasons ELSE <<"Component requires input">>,
             need |-> Dedup(needs)]
       ELSE IF unknown_components # <<>>
            THEN _out("red", <<"undetermined components:">> \o unknown_components)
       ELSE _out(final_color, IF reasons # <<>> THEN reasons ELSE <<"All components allowed">>)
  ELSE LET r == judge_legacy(DF, SVC, inns[i], sport_code, period, route, dose_24h, fuel)
       IN IF r.status = "exception" THEN r
          ELSE IF r.status = "ask"
               THEN LegacyLoop(DF, SVC, inns, i + 1, sport_code, period, route, dose_24h, fuel,
                               "yellow", JoinReason(reasons, NeedsReason(inns[i], r.need)),
                               needs \o r.need, unknown_components)
          ELSE IF r.color = "red" /\ ~HasS0(r.reason) THEN r
          ELSE IF r.color = "red"
               THEN LegacyLoop(DF, SVC, inns, i + 1, sport_code, period, route, dose_24h, fuel,
                               "yellow", reasons, needs, Append(unknown_components, inns[i]))
          ELSE LegacyLoop(DF, SVC, inns, i + 1, sport_code, period, route, dose_24h, fuel,
                          IF r.color = "yellow" THEN "yellow" ELSE final_color,
                          JoinReason(reasons, <<inns[i]>> \o r.reason), needs, unknown_components)

_handle_product_brand(DF, SVC, t, sport_code, period, route, dose_24h, fuel) ==
  LET row == SelectSeq(DF.cache_prod, LAMBDA r : r.brand_name = t)
  IN IF row = <<>> THEN NoneV
     ELSE LegacyLoop(DF, SVC, row[1].list_name, 1, sport_code, period, route, dose_24h, fuel,
                     "green", <<>>, <<>>, <<>>)

\* fuel is the number of interpreter frames left; Python raises
\* RecursionError when a call finds none
judge_legacy(DF, SVC, term, sport_code, period, route, dose_24h, fuel) ==
  LET t == norm(term)
      sport_code_norm == StripUpper(sport_code)
      green == LegacyRow(DF.always_green, t)
      rdose == LegacyRow(DF.ask_route_and_dose, t)
      per == LegacyRow(DF.ask_period, t)
      pr == LegacyRow(DF.ask_period_and_route, t)
      pu == LegacyRow(DF.ask_period_and_urine_caution, t)
      red == LegacyRow(DF.always_red, t)
      cache == LegacyRow(DF.cache_sub, t)
      res_brand == _handle_product_brand(DF, SVC, t, sport_code, period, route, dose_24h, fuel - 1)
      lk == rxnorm_lookup(SVC, t)
  IN IF fuel = 0 THEN Raise("RecursionError")
     ELSE IF green # <<>> THEN _out("green", <<"Allowed by whitelist">>)
     ELSE IF rdose # <<>> THEN LegacyRouteDose(rdose[1], period, route, dose_24h)
     ELSE IF per # <<>> THEN LegacyPeriod(DF, per[1], sport_code_norm, period)
     ELSE IF pr # <<>> THEN LegacyPeriodRoute(pr[1], period, route)
     ELSE IF pu # <<>> THEN LegacyPeriodUrine(pu[1], period)
     ELSE IF red # <<>> THEN _out("red", <<"Always prohibited">>)
     ELSE IF cache # <<>> THEN _section_fallback(DF, cache[1].atc_code, period, route)
     ELSE IF res_brand # NoneV THEN res_brand
     ELSE IF lk.kind = "RequestException" THEN lk
     ELSE IF lk.kind = "single"
          THEN IF lk.atc # <<>> THEN _section_fallback(DF, lk.atc, period, route)
               ELSE _out("red", <<"ATC not found via RxNorm (S0-like). Please verify.">>)
     ELSE IF lk.kind = "combo"
          THEN _out("red", <<"product not in database, candidate components:">> \o lk.compositions)
     ELSE _out("red", <<"Not found in RxNorm (S0). Possibly unapproved.">>)

\* ------------------------------------------------------------------------
\* Reference tables (the CSV files after load_data) and lookup answers
\* ------------------------------------------------------------------------
Code(a, b, c) == <<a, b, c>>

IdRow(n, al, sec) == [inn |-> n, aliases |-> al, section_code |-> sec]
RouteDoseRow(n, al) ==
  [inn |-> n, aliases |-> al, permitted_route |-> {"inhaled"}, prohibited_route |-> {"oral"},
   maximum_dose |-> 1, has_urine_column |-> FALSE, urine_threshold_ng_ml |-> NoDose]
PeriodRow(n, al, sec) ==
  [inn |-> n, aliases |-> al, section_code |-> sec, prohibited_period |-> "in"]
PeriodRouteRow(n, al) ==
  [inn |-> n, aliases |-> al, permitted_route |-> {}, prohibited_route |-> {}]
UrineRow(n, al) == [inn |-> n, aliases |-> al, urine_threshold_ng_ml |-> 2]
CacheRow(n, al, sec, atc) ==
  [inn |-> n, aliases |-> al, mapped_section_code |-> sec, atc_code |-> atc]
ProductRow(n, al, lst) == [brand_name |-> n, aliases |-> al, list_name |-> lst]

BaseDF ==
  [always_green |-> <<IdRow("grn", {"grn2"}, "")>>,
   always_red |-> <<IdRow("red", {}, "S1")>>,
   ask_route_and_dose |-> <<RouteDoseRow("rd", {})>>,
   ask_period |-> <<PeriodRow("per", {}, "S6")>>,
   ask_period_and_route |-> <<PeriodRouteRow("pr", {})>>,
   ask_period_and_urine_caution |-> <<UrineRow("uri", {})>>,
   sections |-> <<[section_code |-> "S1", _permitted_routes |-> {}, _prohibited_routes |-> {},
                   atc_code_prefix |-> {Code("A", "1", "4")}],
                  [section_code |-> "S9", _permitted_routes |-> {"inhaled"},
                   _prohibited_routes |-> {"oral", "injectable"},
                   atc_code_prefix |-> {Code("H", "0", "2")}]>>,
   sports |-> <<[sport_code |-> "ARCH", prohibited_section |-> "P1", prohibited_period |-> "both",
                 prohibited_periodo |-> None]>>,
   cache_sub |-> <<CacheRow("cch", {}, "S7", Code("N", "0", "6"))>>,
   cache_prod |-> <<>>,
   classes_map |-> <<[_label_norm |-> "stimulant", mapped_section_code |-> "S6"]>>,
   allowed_class |-> <<[_label_norm |-> "nsaid"]>>,
   allowed_atc |-> {Code("M", "0", "1")}]

\* the row of x in each table it is a member of
XTables == {"always_green", "always_red", "ask_route_and_dose", "ask_period",
            "ask_period_and_route", "ask_period_and_urine_caution", "cache_sub", "cache_prod"}

XRow(tab) ==
  CASE tab = "always_green" -> IdRow("x", {"xa"}, "")
    [] tab = "always_red" -> IdRow("x", {"xa"}, "S2")
    [] tab = "ask_route_and_dose" -> RouteDoseRow("x", {"xa"})
    [] tab = "ask_period" -> PeriodRow("x", {"xa"}, "S6")
    [] tab = "ask_period_and_route" -> PeriodRouteRow("x", {"xa"})
    [] tab = "ask_period_and_urine_caution" -> UrineRow("x", {"xa"})
    [] tab = "cache_sub" -> CacheRow("x", {"xa"}, "s9", Code("H", "0", "2"))
    [] tab = "cache_prod" -> ProductRow("x", {"xa"}, <<"grn", "uri">>)

\* BaseDF with x added to the tables of M
TierDF(M) ==
  [tab \in DOMAIN BaseDF |->
     IF tab \in M THEN Append(BaseDF[tab], XRow(tab)) ELSE BaseDF[tab]]

\* BaseDF with the products pa (the given list), pb (lists pa) and pc
IngredientNames == {"grn", "red", "unk", "uri", "per", "rd", "pb", "pc"}

ListsUpTo(n) == UNION {[1..k -> IngredientNames] : k \in 1..n}

BrandDF(lst) ==
  [BaseDF EXCEPT !.cache_prod = <<ProductRow("pa", {}, lst), ProductRow("pb", {}, <<"pa">>),
                                  ProductRow("pc", {}, <<"uri", "per">>)>>]

\* a P1 substance p1x in the Period table, in the cache, or in both, and the
\* rule of the sports table for ARCH
SportRules == {"both", "in"}

P1DF(where, rule) ==
  [BaseDF EXCEPT
     !.ask_period = IF "ask_period" \in where THEN Append(@, PeriodRow("p1x", {}, "P1")) ELSE @,
     !.cache_sub = IF "cache_sub" \in where
                   THEN Append(@, CacheRow("p1x", {}, " p1", Code("C", "0", "7"))) ELSE @,
     !.sports = <<[sport_code |-> "ARCH", prohibited_section |-> "P1", prohibited_period |-> rule,
                   prohibited_periodo |-> None]>>]

\* a Route+Dose record rdx of every shape: with and without permitted
\* routes, prohibited routes, a maximum dose and a urine threshold
RouteDoseShapes ==
  [permitted_route : {{}, {"inhaled"}}, prohibited_route : {{}, {"oral"}},
   maximum_dose : {NoDose, 1}, has_urine_column : BOOLEAN]

RouteDoseDF(shape) ==
  [BaseDF EXCEPT
     !.ask_route_and_dose =
        <<[inn |-> "rdx", aliases |-> {}, permitted_route |-> shape.permitted_route,
           prohibited_route |-> shape.prohibited_route, maximum_dose |-> shape.maximum_dose,
           has_urine_column |-> shape.has_urine_column,
           urine_threshold_ng_ml |-> IF shape.has_urine_column THEN 2 ELSE NoDose]>>]


\* Section rules over nested classification prefixes: idx gives each prefix
\* its section ("" = not indexed); k1, k2, k3 are cached substances whose
\* codes the prefixes cover to different depths
Prefixes == {<<"C">>, <<"C", "0", "7">>, <<"C", "0", "7", "A", "B">>,
             <<"C", "0", "7", "A", "B", "0", "2">>}
PrefixSections == {"S1", "S6", "S9"}
PrefixIndexes == [Prefixes -> PrefixSections \cup {""}]

PrefixDF(idx) ==
  [BaseDF EXCEPT
     !.sections = <<[section_code |-> "S1", _permitted_routes |-> {}, _prohibited_routes |-> {},
                     atc_code_prefix |-> {q \in Prefixes : idx[q] = "S1"}],
                    [section_code |-> "S6", _permitted_routes |-> {}, _prohibited_routes |-> {},
                     atc_code_prefix |-> {q \in Prefixes : idx[q] = "S6"}],
                    [section_code |-> "S9", _permitted_routes |-> {"inhaled"},
                     _prohibited_routes |-> {"oral", "injectable"},
                     atc_code_prefix |-> {q \in Prefixes : idx[q] = "S9"}]>>,
     !.cache_sub = <<CacheRow("k1", {}, "S7", <<"C", "0", "7", "A", "B", "0", "2">>),
                     CacheRow("k2", {}, "S7", <<"C", "0", "7", "A", "A">>),
                     CacheRow("k3", {}, "S7", <<"H", "0", "2">>)>>]


\* a substance y with a cache record (sec: "none" = no record, otherwise its
\* mapped section) and a product record (prod: "none" = no record, "empty" =
\* an empty ingredient list, otherwise the one ingredient)
CacheSections == {"none", "", "S10", "S1", "ALLOWED", "S0", "S6"}
ProductShapes == {"none", "empty", "grn", "red"}

OrderDF(sec, prod) ==
  [BaseDF EXCEPT
     !.cache_sub = IF sec = "none" THEN @ ELSE Append(@, CacheRow("y", {}, sec, <<>>)),
     !.cache_prod = IF prod = "none" THEN <<>>
                    ELSE <<ProductRow("y", {}, IF prod = "empty" THEN <<>> ELSE <<prod>>)>>]

OrderInputs == [periods |-> {None, "in"}, routes |-> {None}]

\* Lookup service answers.  exact / approx are the two requests of the
\* name search, related the ingredient request (tty=IN in judge.py,
\* rela=has_ingredient in judge_legacy.py), classes the byRxcui request
\* (class names for judge.py, the ATC class id for judge_legacy.py) and
\* props the properties request of judge_legacy.py.
AllNames == {"", "y", "k1", "k2", "k3", "p1x", "rdx", "x", "xa", "x sulfate", "grn", "grn2", "red", "unk", "uri", "per", "rd", "pr",
             "cch", "pa", "pb", "pc", "ext", "e1"}
Concepts == {"c1", "c2", "c3"}

Found(id) == [ok |-> TRUE, ids |-> <<id>>]
NotFound == [ok |-> TRUE, ids |-> <<>>]
Failed == [ok |-> FALSE, ids |-> <<>>]

RelatedAnswers ==
  {[ok |-> FALSE, ins |-> <<>>],
   [ok |-> TRUE, ins |-> <<>>],
   [ok |-> TRUE, ins |-> <<[inn |-> "e1", rxcui |-> "c2"]>>],
   [ok |-> TRUE, ins |-> <<[inn |-> "grn", rxcui |-> "c2"], [inn |-> "uri", rxcui |-> "c3"]>>]}

ClassAnswers ==
  {[ok |-> FALSE, labels |-> {}, code |-> <<>>],
   [ok |-> TRUE, labels |-> {}, code |-> <<>>],
   [ok |-> TRUE, labels |-> {"stimulant"}, code |-> Code("A", "1", "4")],
   [ok |-> TRUE, labels |-> {"nsaid"}, code |-> Code("M", "0", "1")],
   [ok |-> TRUE, labels |-> {"other"}, code |-> Code("X", "9", "9")],
   [ok |-> TRUE, labels |-> {"stimulant", "nsaid"}, code |-> Code("H", "0", "2")]}

PropAnswers == {[ok |-> FALSE, tty |-> ""], [ok |-> TRUE, tty |-> "IN"], [ok |-> TRUE, tty |-> "SBD"]}

DefaultSVC ==
  [requests |-> TRUE,
   exact |-> [n \in AllNames |-> NotFound],
   approx |-> [n \in AllNames |-> NotFound],
   related |-> [c \in Concepts |-> [ok |-> TRUE, ins |-> <<>>]],
   classes |-> [c \in Concepts |-> [ok |-> TRUE, labels |-> {}, code |-> <<>>]],
   props |-> [c \in Concepts |-> [ok |-> TRUE, tty |-> "IN"]]]

ResolvedSVC(viaExact, rel, cl1, cl2, pr) ==
  [DefaultSVC EXCEPT !.exact["ext"] = IF viaExact THEN Found("c1") ELSE NotFound,
                     !.approx["ext"] = IF viaExact THEN NotFound ELSE Found("c1"),
                     !.related["c1"] = rel,
                     !.classes["c1"] = cl1,
                     !.classes["c2"] = cl2,
                     !.props["c1"] = pr]

\* the service resolves x and y to a substance of an allowed class
GreenSVC ==
  [DefaultSVC EXCEPT !.exact["x"] = Found("c1"), !.exact["y"] = Found("c1"),
                     !.classes["c1"] = [ok |-> TRUE, labels |-> {"nsaid"},
                                        code |-> Code("M", "0", "1")]]

OrderSVCs == {GreenSVC, DefaultSVC, [GreenSVC EXCEPT !.requests = FALSE]}

UnresolvedSVCs ==
  {[DefaultSVC EXCEPT !.exact["ext"] = Failed],
   [DefaultSVC EXCEPT !.approx["ext"] = Failed],
   DefaultSVC,
   [DefaultSVC EXCEPT !.requests = FALSE, !.exact["ext"] = Found("c1"),
                      !.classes["c1"] = [ok |-> TRUE, labels |-> {"nsaid"}, code |-> <<>>]]}

ResolvedSVCs ==
  {ResolvedSVC(e, rel, cl1, cl2, pr) :
     e \in BOOLEAN, rel \in RelatedAnswers, cl1 \in ClassAnswers, cl2 \in ClassAnswers,
     pr \in PropAnswers}

\* ------------------------------------------------------------------------
\* The converter (src/cleathlete/converter.py) and its completeness test.
\* A text is a sequence of atoms: single characters, and the words the
\* exclusion pattern looks for, each taken as one atom in the spelling given.
\* ------------------------------------------------------------------------
MaxLines == 3              \* longest document, in lines

Whitespace == {" "}
Digits == {"0", "1", "2", "3", "4", "5", "6", "7", "8", "9"}
UpperSeq == <<"A", "B", "C", "D", "E", "F", "G", "H", "I", "J", "K", "L", "M", "N", "O", "P", "Q", "R", "S", "T", "U", "V", "W", "X", "Y", "Z">>
LowerSeq == <<"a", "b", "c", "d", "e", "f", "g", "h", "i", "j", "k", "l", "m", "n", "o", "p", "q", "r", "s", "t", "u", "v", "w", "x", "y", "z">>
UpperLetters == {UpperSeq[k] : k \in DOMAIN UpperSeq}
LowerLetters == {LowerSeq[k] : k \in DOMAIN LowerSeq}
Punctuation == {"(", ")", "*", "-", ";", ":", ",", "bullet", "katakana-dot", "middle-dot", "black-circle", "hyphenation-point", "bullet-operator"}
Bullet == "bullet"

\* \b of the regular expressions: an atom that begins and ends in a word
\* character
IsWordAtom(a) == a \notin Whitespace \cup Punctuation

RECURSIVE lstripOf(_, _)
lstripOf(s, cs) == IF s # <<>> /\ Head(s) \in cs THEN lstripOf(Tail(s), cs) ELSE s

RECURSIVE rstripOf(_, _)
rstripOf(s, cs) ==
  IF s # <<>> /\ s[Len(s)] \in cs THEN rstripOf(SubSeq(s, 1, Len(s) - 1), cs) ELSE s

stripOf(s, cs) == rstripOf(lstripOf(s, cs), cs)
strip(s) == stripOf(s, Whitespace)

\* index of the first atom of s that is in cs, 0 without one
FirstIn(s, cs) ==
  IF \E k \in DOMAIN s : s[k] \in cs
  THEN CHOOSE k \in DOMAIN s : s[k] \in cs /\ \A m \in 1..(k - 1) : s[m] \notin cs
  ELSE 0

SECTION_RE(line) ==
  /\ Len(line) >= 2
  /\ line[1] \in {"S", "M", "P"}
  /\ line[2] \in Digits
  /\ Len(line) >= 3 => ~IsWordAtom(line[3])

\* line.split()[0] of a stripped, non-empty line
FirstWord(line) ==
  LET k == FirstIn(line, Whitespace) IN IF k = 0 THEN line ELSE SubSeq(line, 1, k - 1)

SUBHEAD_ALL(line) ==
  /\ Len(line) >= 2
  /\ line[1] \in UpperLetters \cup Digits
  /\ \A k \in 2..Len(line) : line[k] \in UpperLetters \cup Digits \cup {" ", "-", "(", ")"}

\* group 1 of ^[bullet*-]\s*(.+), <<>> when the line does not match
BULLET_LINE(line) ==
  IF Len(line) >= 2 /\ line[1] \in {Bullet, "*", "-"}
  THEN LET rest == lstripOf(Tail(line), Whitespace)
       IN IF rest # <<>> THEN rest ELSE <<line[Len(line)]>>
  ELSE <<>>

\* str.title(): a letter after a letter is lower-cased, any other letter
\* upper-cased
LowerOf(a) ==
  IF a \in UpperLetters THEN LowerSeq[CHOOSE k \in DOMAIN UpperSeq : UpperSeq[k] = a] ELSE a
UpperOf(a) ==
  IF a \in LowerLetters THEN UpperSeq[CHOOSE k \in DOMAIN LowerSeq : LowerSeq[k] = a] ELSE a
title(s) ==
  [k \in DOMAIN s |->
     IF k > 1 /\ s[k - 1] \in UpperLetters \cup LowerLetters THEN LowerOf(s[k]) ELSE UpperOf(s[k])]

Separators == {"bullet", ";", "katakana-dot", "middle-dot", "black-circle", "hyphenation-point", "bullet-operator"}

\* BULLET_SEP_RE.split(text): the pieces between separators, the white space
\* around a separator being part of it
RECURSIVE BULLET_SEP_RE_split(_)
BULLET_SEP_RE_split(text) ==
  LET k == FirstIn(text, Separators)
  IN IF k = 0 THEN <<text>>
     ELSE <<rstripOf(SubSeq(text, 1, k - 1), Whitespace)>>
            \o BULLET_SEP_RE_split(lstripOf(SubSeq(text, k + 1, Len(text)), Whitespace))

\* re.sub(r"\s{2,}", " ", tok)
RECURSIVE CollapseSpaces(_)
CollapseSpaces(s) ==
  IF Len(s) < 2 THEN s
  ELSE IF s[1] \in Whitespace /\ s[2] \in Whitespace
       THEN CollapseSpaces(<<" ">> \o lstripOf(s, Whitespace))
       ELSE <<s[1]>> \o CollapseSpaces(Tail(s))

\* re.split(r"\s*\(", tok, 1)[0]
BeforeParen(s) ==
  LET k == FirstIn(s, {"("})
  IN IF k = 0 THEN s ELSE rstripOf(SubSeq(s, 1, k - 1), Whitespace)

clean_token(tok) ==
  LET t1 == stripOf(tok, {" ", "*", ";"})
      t2 == CollapseSpaces(t1)
      t3 == strip(BeforeParen(t2))
  IN rstripOf(t3, {")"})

UnitWords == {"microgram", "micrograms", "micro-g", "mu-g", "mg/ml", "ml", "hour", "hours"}
BoundedWords == {"maximum", "inhaled", "out-of-competition"}
SportWords == {"Archery", "Shooting", "Cycling"}

EXCLUDE_PAT(name) ==
  \/ \E k \in DOMAIN name :
       /\ name[k] \in Digits
       /\ \/ k + 1 <= Len(name) /\ name[k + 1] \in UnitWords
          \/ k + 2 <= Len(name) /\ name[k + 1] = " " /\ name[k + 2] \in UnitWords
  \/ \E k \in DOMAIN name :
       /\ name[k] \in BoundedWords
       /\ k > 1 => ~IsWordAtom(name[k - 1])
       /\ k < Len(name) => ~IsWordAtom(name[k + 1])
  \/ \E k \in DOMAIN name : name[k] \in SportWords

looks_like_substance(name) == ~EXCLUDE_PAT(name)

\* dict operations of parse_pdf; <<>> is the empty dict and the empty list
setdefault(d, key, value) ==
  IF key \in DOMAIN d THEN d ELSE [x \in DOMAIN d \cup {key} |-> IF x = key THEN value ELSE d[x]]

NoHeading == <<>>          \* current_sec / current_sub = None
Misc == <<"M", "i", "s", "c">>

\* data[current_sec].setdefault(bucket, []).append(token)
AppendToken(data, sec, bucket, token) ==
  LET inner == setdefault(data[sec], bucket, <<>>)
  IN [data EXCEPT ![sec] = [inner EXCEPT ![bucket] = Append(inner[bucket], token)]]

\* the names a bullet line adds
RECURSIVE AppendTokens(_, _, _, _)
AppendTokens(data, sec, sub, tokens) ==
  IF tokens = <<>> THEN data
  ELSE LET token == clean_token(Head(tokens))
           next == IF token # <<>> /\ looks_like_substance(token)
                   THEN AppendToken(data, sec, IF sub # NoHeading THEN sub ELSE Misc, token)
                   ELSE data
       IN AppendTokens(next, sec, sub, Tail(tokens))

\* one iteration of the line loop of parse_pdf
ParseLine(st, raw_line) ==
  LET line == strip(raw_line)
  IN IF SECTION_RE(line)
     THEN [data |-> setdefault(st.data, FirstWord(line), <<>>),
           current_sec |-> FirstWord(line), current_sub |-> NoHeading]
     ELSE IF SUBHEAD_ALL(line) /\ BULLET_LINE(line) = <<>>
     THEN IF st.current_sec = NoHeading THEN st
          ELSE [st EXCEPT !.current_sub = title(line),
                          !.data = [st.data EXCEPT ![st.current_sec] =
                                      setdefault(st.data[st.current_sec], title(line), <<>>)]]
     ELSE IF BULLET_LINE(line) = <<>> \/ st.current_sec = NoHeading THEN st
     ELSE [st EXCEPT !.data = AppendTokens(st.data, st.current_sec, st.current_sub,
                                           BULLET_SEP_RE_split(BULLET_LINE(line)))]

RECURSIVE ParseLines(_, _)
ParseLines(st, lines) ==
  IF lines = <<>> THEN st ELSE ParseLines(ParseLine(st, Head(lines)), Tail(lines))

parse_pdf(lines) ==
  ParseLines([data |-> <<>>, current_sec |-> NoHeading, current_sub |-> NoHeading], lines).data

\* m.group(1).split(" (")[0]
BeforeSpaceParen(s) ==
  IF \E k \in 1..(Len(s) - 1) : s[k] = " " /\ s[k + 1] = "("
  THEN LET k == CHOOSE k \in 1..(Len(s) - 1) :
                  /\ s[k] = " " /\ s[k + 1] = "("
                  /\ \A m \in 1..(k - 1) : ~(s[m] = " " /\ s[m + 1] = "(")
       IN SubSeq(s, 1, k - 1)
  ELSE s

extract_names_from_pdf(lines) ==
  {strip(BeforeSpaceParen(BULLET_LINE(strip(lines[i])))) :
     i \in {j \in DOMAIN lines : BULLET_LINE(strip(lines[j])) # <<>>}}

extract_names_from_yaml(data) ==
  UNION {UNION {{data[sec][sub][k] : k \in DOMAIN data[sec][sub]} : sub \in DOMAIN data[sec]} :
           sec \in DOMAIN data}

\* the lines of the documents: a section heading, a subheading, bullet lines
\* of the shapes the converter tells apart, and a line of running text
SampleLines ==
  {<<"S", "1">>,
   <<"A", "B">>,
   <<"bullet", " ", "a">>,
   <<"bullet", " ", "a", " ", "(", "b", ")">>,
   <<"bullet", " ", "a", "(", "b", ")">>,
   <<"bullet", " ", "a", " ", "bullet", " ", "b">>,
   <<"bullet", " ", "inhaled", " ", "a">>,
   <<"*", " ", "a", " ", "*">>,
   <<"-", " ", "b">>,
   <<"a">>}

Documents == UNION {[1..n -> SampleLines] : n \in 0..MaxLines}

NotWritten == [written |-> FALSE, data |-> <<>>]

\* ------------------------------------------------------------------------
\* The state machine: a process with its tables loaded, and a caller that
\* submits a query, answers what the engine asks for, and starts over
\* ------------------------------------------------------------------------
VARIABLES DF, SVC, terms, inputs, ctx, res, calls, resLegacy, pdf, yaml

vars == <<DF, SVC, terms, inputs, ctx, res, calls, resLegacy, pdf, yaml>>

Sports == {"GEN", "arch"}
PeriodInputs == {None, "in", "out", "COMP"}
RouteInputs == {None, "inhaled", "PO"}
DoseInputs == {NoDose} \cup 1..MaxDoseInput

\* acyclic nesting: products q1 .. qk, each listing grn and the next one, the
\* last listing a leaf that is a substance or a composite of the lookup service
ChainNames == <<"q1", "q2", "q3", "q4", "q5", "q6", "q7", "q8">>

ChainDF(k, leaf) ==
  [BaseDF EXCEPT
     !.cache_prod = [i \in 1..k |->
                       ProductRow(ChainNames[i], {},
                                  IF i < k THEN <<"grn", ChainNames[i + 1]>> ELSE <<leaf>>)]]

\* the service resolves ext to the two ingredients grn and uri
CompositeSVC ==
  ResolvedSVC(TRUE, [ok |-> TRUE, ins |-> <<[inn |-> "grn", rxcui |-> "c2"],
                                            [inn |-> "uri", rxcui |-> "c3"]>>],
              [ok |-> TRUE, labels |-> {}, code |-> <<>>],
              [ok |-> TRUE, labels |-> {}, code |-> <<>>], [ok |-> TRUE, tty |-> "IN"])

\* a record arx of a route tier whose route sets hold spellings that the route
\* canonicalization rewrites (nasal, po) and spellings it keeps
AliasRouteDF(shape) ==
  [BaseDF EXCEPT
     ![shape.tier] =
        <<[inn |-> "arx", aliases |-> {}, permitted_route |-> shape.permitted_route,
           prohibited_route |-> shape.prohibited_route, maximum_dose |-> NoDose,
           has_urine_column |-> FALSE, urine_threshold_ng_ml |-> NoDose]>>]

\* a substance of a period-dependent section, classified by the substance
\* cache or by the class label the lookup service reports for it
StimulantSVC ==
  ResolvedSVC(TRUE, [ok |-> TRUE, ins |-> <<[inn |-> "e1", rxcui |-> "c2"]>>],
              [ok |-> TRUE, labels |-> {}, code |-> <<>>],
              [ok |-> TRUE, labels |-> {"stimulant"}, code |-> Code("A", "1", "4")],
              [ok |-> TRUE, tty |-> "IN"])

PeriodSectionDF(where, sec) ==
  IF where = "cache_sub"
  THEN [BaseDF EXCEPT !.cache_sub = <<CacheRow("ext", {}, sec, Code("N", "0", "6"))>>]
  ELSE [BaseDF EXCEPT !.classes_map = <<[_label_norm |-> "stimulant", mapped_section_code |-> sec]>>]

\* a Period+Route record prx of every shape, and the S9 row of the sections
\* table: absent, without routes, with routes
PeriodRouteDF(shape) ==
  [BaseDF EXCEPT
     !.ask_period_and_route =
        <<[inn |-> "prx", aliases |-> {}, permitted_route |-> shape.permitted_route,
           prohibited_route |-> shape.prohibited_route]>>,
     !.sections =
        IF shape.s9 = "none" THEN <<@[1]>>
        ELSE IF shape.s9 = "empty"
             THEN <<@[1], [@[2] EXCEPT !._permitted_routes = {}, !._prohibited_routes = {}]>>
             ELSE @]


\* spellings of the period, recognized and not
PeriodTables == {"ask_period", "ask_period_and_route", "ask_period_and_urine_caution"}

\* what the caller may type for period and route in a scenario
DefaultInputs == [periods |-> PeriodInputs, routes |-> RouteInputs]

Scenarios ==
  {[DF |-> TierDF(M), SVC |-> DefaultSVC, terms |-> {"x", "xa", " X ", "X sulfate"},
    inputs |-> DefaultInputs] : M \in SUBSET XTables}
  \cup {[DF |-> BrandDF(lst), SVC |-> DefaultSVC, terms |-> {"pa"}, inputs |-> DefaultInputs] :
          lst \in ListsUpTo(MaxIngredients)}
  \cup {[DF |-> BaseDF, SVC |-> svc, terms |-> {"ext"}, inputs |-> DefaultInputs] :
          svc \in UnresolvedSVCs \cup ResolvedSVCs}
  \cup {[DF |-> P1DF(where, rule), SVC |-> DefaultSVC, terms |-> {"p1x"},
          inputs |-> [periods |-> PeriodInputs, routes |-> {None}]] :
          where \in (SUBSET {"ask_period", "cache_sub"}) \ {{}}, rule \in SportRules}
  \cup {[DF |-> RouteDoseDF(shape), SVC |-> DefaultSVC, terms |-> {"rdx"},
          inputs |-> [periods |-> {None, "in", "out"},
                      routes |-> {None, "inhaled", "PO", "topical"}]] : shape \in RouteDoseShapes}
  \cup {[DF |-> OrderDF(sec, prod), SVC |-> svc, terms |-> {"y"}, inputs |-> OrderInputs] :
          sec \in CacheSections, prod \in ProductShapes, svc \in OrderSVCs}
  \cup {[DF |-> TierDF(M), SVC |-> GreenSVC, terms |-> {"x"}, inputs |-> OrderInputs] :
          M \in {N \in SUBSET XTables : Cardinality(N) <= 1}}
  \cup {[DF |-> TierDF({tab}), SVC |-> DefaultSVC, terms |-> {"x"},
          inputs |-> [periods |-> {None, "", " ", "bogus", "in", "out", "IN", " Out", "COMP",
                                   "out-comp"},
                      routes |-> {None}]] :
          tab \in PeriodTables}
  \cup {[DF |-> PeriodRouteDF(shape), SVC |-> DefaultSVC, terms |-> {"prx"},
          inputs |-> [periods |-> {None, "in", "out"},
                      routes |-> {None, "", "inhaled", "PO", "topical", "injectable"}]] :
          shape \in [permitted_route : {{}, {"inhaled"}}, prohibited_route : {{}, {"oral"}},
                     s9 : {"none", "empty", "routes"}]}
  \cup {[DF |-> ChainDF(k, leaf), SVC |-> CompositeSVC, terms |-> {"q1"}, inputs |-> OrderInputs] :
          k \in 1..MaxChain, leaf \in {"grn", "per", "ext"}}
  \cup {[DF |-> AliasRouteDF(shape), SVC |-> DefaultSVC, terms |-> {"arx"}, inputs |-> OrderInputs] :
          shape \in [tier : {"ask_route_and_dose", "ask_period_and_route"},
                     permitted_route : {{}, {"nasal"}, {"inhaled"}},
                     prohibited_route : {{}, {"po"}, {"oral"}}]}
  \cup {[DF |-> PeriodSectionDF(where, sec), SVC |-> StimulantSVC, terms |-> {"ext"},
          inputs |-> [periods |-> {None, "in", "out"}, routes |-> {None, "oral", "inhaled"}]] :
          where \in {"cache_sub", "classes_map"}, sec \in {"S6", "S7", "S8", "S9"}}
  \cup {[DF |-> PrefixDF(idx), SVC |-> DefaultSVC, terms |-> {"k1", "k2", "k3"},
          inputs |-> [periods |-> {None, "in"}, routes |-> {None}]] : idx \in PrefixIndexes}

IdleCtx == [term |-> None, sport_code |-> None, period |-> None, route |-> None,
            dose_24h |-> NoDose]

Init ==
  /\ \E sc \in Scenarios : DF = sc.DF /\ SVC = sc.SVC /\ terms = sc.terms /\ inputs = sc.inputs
  /\ ctx = IdleCtx
  /\ res = NoneV
  /\ calls = {}
  /\ resLegacy = NoneV
  /\ pdf = <<>>
  /\ yaml = NotWritten

\* one round: both engines answer the context
Evaluate(c) ==
  LET r == judgeT(DF, SVC, c.term, c.sport_code, c.period, c.route, c.dose_24h, 0)
  IN /\ ctx' = c
     /\ res' = r.res
     /\ calls' = r.calls
     /\ resLegacy' = judge_legacy(DF, SVC, c.term, c.sport_code, c.period, c.route, c.dose_24h,
                                  LegacyStackLimit)
     /\ UNCHANGED <<DF, SVC, terms, inputs, pdf, yaml>>

\* the first invocation of a query: a caller with no query in progress calls
\* judge with the arguments it chooses
Call ==
  /\ ctx.term = None
  /\ \E t \in terms, s \in Sports, p \in inputs.periods, r \in inputs.routes, d \in DoseInputs :
       Evaluate([term |-> t, sport_code |-> s, period |-> p, route |-> r, dose_24h |-> d])

\* the caller resubmits the context with one requested field filled in
Answer ==
  /\ res.status = "ask"
  /\ \E i \in DOMAIN res.need :
       \/ /\ res.need[i].field = "period"
          /\ \E v \in res.need[i].options : Evaluate([ctx EXCEPT !.period = v])
       \/ /\ res.need[i].field = "route"
          /\ \E v \in res.need[i].options : Evaluate([ctx EXCEPT !.route = v])
       \/ /\ res.need[i].field = "dose_24h"
          /\ \E v \in 1..MaxDoseInput : Evaluate([ctx EXCEPT !.dose_24h = v])

Reset ==
  /\ ctx.term # None
  /\ ctx' = IdleCtx
  /\ res' = NoneV
  /\ calls' = {}
  /\ resLegacy' = NoneV
  /\ UNCHANGED <<DF, SVC, terms, inputs, pdf, yaml>>

Next == Call \/ Answer \/ Reset

Spec == Init /\ [][Next]_vars

\* ------------------------------------------------------------------------
\* The converter run: a document is converted once
\* ------------------------------------------------------------------------
ConverterInit ==
  /\ DF = BaseDF /\ SVC = DefaultSVC /\ terms = {} /\ inputs = DefaultInputs
  /\ ctx = IdleCtx /\ res = NoneV /\ calls = {} /\ resLegacy = NoneV
  /\ pdf \in Documents
  /\ yaml = NotWritten

convert ==
  /\ ~yaml.written
  /\ yaml' = [written |-> TRUE, data |-> parse_pdf(pdf)]
  /\ UNCHANGED <<DF, SVC, terms, inputs, ctx, res, calls, resLegacy, pdf>>

ConverterNext == convert

ConverterSpec == ConverterInit /\ [][ConverterNext]_vars

\* ------------------------------------------------------------------------
\* The interactive front end (demo/streamlit_app.py), one action per button
\* ------------------------------------------------------------------------
\* terms: what is typed into the Drug/Brand box, the empty box included
AppInit ==
  /\ DF = BaseDF /\ SVC = DefaultSVC /\ inputs = OrderInputs
  /\ terms = {"", "grn", "rd", "per", "pr", "uri", "red", "unk"}
  /\ ctx = IdleCtx
  /\ res = NoneV
  /\ calls = {}
  /\ resLegacy = NoneV
  /\ pdf = <<>>
  /\ yaml = NotWritten

\* one run of the script on the session context c: the engine the page
\* imports is called when sport and term are set
Rerun(c) ==
  /\ ctx' = c
  /\ resLegacy' = IF c.sport_code # None /\ c.term # None /\ c.term # ""
                   THEN judge_legacy(DF, SVC, c.term, c.sport_code, c.period, c.route, c.dose_24h,
                                     LegacyStackLimit)
                   ELSE NoneV
  /\ UNCHANGED <<DF, SVC, terms, inputs, res, calls, pdf, yaml>>

\* ctx.update({"sport_code": sport, "term": term}) keeps the update's value
\* of the two fields and the session's value of the other three
StartRetry ==
  \E sport \in {"GEN", "WA_ARCH"}, term \in terms :
    Rerun([ctx EXCEPT !.sport_code = sport, !.term = term])

\* the options of the route selectbox; the Route+Dose tier of the imported
\* engine offers the permitted_route cell, which holds one route here
AppRouteOptions(v, need) ==
  LET listed == IF v.reason = <<"S3 requires route check">> THEN UNION need.options
                ELSE need.options
  IN IF listed # {} THEN listed
     ELSE {"oral", "injectable", "inhaled", "topical", "nasal", "ophthalmic", "otic", "rectal",
           "oromucosal"}

NextPeriod ==
  /\ resLegacy.status = "ask"
  /\ \E i \in DOMAIN resLegacy.need : resLegacy.need[i].field = "period"
  /\ \E val \in {"in", "out"} : Rerun([ctx EXCEPT !.period = val])

NextRoute ==
  /\ resLegacy.status = "ask"
  /\ \E i \in DOMAIN resLegacy.need :
       /\ resLegacy.need[i].field = "route"
       /\ \E val \in AppRouteOptions(resLegacy, resLegacy.need[i]) : Rerun([ctx EXCEPT !.route = val])

NextDose ==
  /\ resLegacy.status = "ask"
  /\ \E i \in DOMAIN resLegacy.need : resLegacy.need[i].field = "dose_24h"
  /\ \E val \in 0..MaxDoseInput : Rerun([ctx EXCEPT !.dose_24h = val])

\* reset(), offered under a final verdict and under the questions
AppReset ==
  /\ resLegacy.status \in {"final", "ask"}
  /\ Rerun(IdleCtx)

AppNext == StartRetry \/ NextPeriod \/ NextRoute \/ NextDose \/ AppReset

AppSpec == AppInit /\ [][AppNext]_vars

\* ------------------------------------------------------------------------
\* Vocabulary of the properties
\* ------------------------------------------------------------------------
Queried == ctx.term # None
TermNorm == _norm(ctx.term)
LegacyTerm == norm(ctx.term)

SixTables == {"always_green", "always_red", "ask_route_and_dose", "ask_period",
              "ask_period_and_route", "ask_period_and_urine_caution"}

\* the term is the inn or an alias of a row of the table
InTable(tab) ==
  \E i \in DOMAIN DF[tab] : DF[tab][i].inn = TermNorm \/ TermNorm \in DF[tab][i].aliases
\* the legacy engine compares the inn column only
LegacyInTable(tab) == \E i \in DOMAIN DF[tab] : DF[tab][i].inn = LegacyTerm

ProductRows ==
  {i \in DOMAIN DF.cache_prod :
     DF.cache_prod[i].brand_name = TermNorm \/ TermNorm \in DF.cache_prod[i].aliases}

HasRecord(tab) == IF tab = "cache_prod" THEN ProductRows # {} ELSE InTable(tab)

FinalColor(v, c) == v.status = "final" /\ v.color = c

\* C1: a term whose normalized name or alias is in the Always-Green table gets
\* Final green from judge, for every sport, period, route and dose and whatever
\* other tables hold the term.
C1_AlwaysGreen == (Queried /\ InTable("always_green")) => FinalColor(res, "green")

C1_Witness ==
  /\ Queried /\ ctx.term = "xa" /\ ctx.period = "in" /\ ctx.route = "PO" /\ ctx.dose_24h = 2
  /\ \A tab \in XTables : HasRecord(tab)
  /\ FinalColor(res, "green")

\* C2 as stated: a term in the Always-Red table gets Final red whatever other
\* tables it is in.
C2_Original == (Queried /\ InTable("always_red")) => FinalColor(res, "red")

\* C2 amended: a term in Always-Red and not in Always-Green gets Final red from
\* judge (scripts/judge.py) for every sport, period, route and dose, whatever
\* later tables hold it; the legacy judge answers red for a term of its red
\* table only when none of the five tables it consults earlier has the term.
C2_AlwaysRedUnlessGreen ==
  /\ (Queried /\ InTable("always_red") /\ ~InTable("always_green")) => FinalColor(res, "red")
  /\ (Queried /\ LegacyInTable("always_red")
        /\ \A tab \in SixTables \ {"always_red"} : ~LegacyInTable(tab))
       => FinalColor(resLegacy, "red")

C2_Witness ==
  /\ Queried /\ ctx.period = "out" /\ ctx.route = "inhaled" /\ ctx.dose_24h = 1
  /\ InTable("always_red") /\ ~InTable("always_green")
  /\ \A tab \in XTables \ {"always_green"} : HasRecord(tab)
  /\ FinalColor(res, "red")

\* what the lookup service answers for the term
ExactAnswer == SVC.exact[TermNorm]
ApproxAnswer == SVC.approx[TermNorm]
Unresolvable ==
  \/ ~SVC.requests
  \/ ~ExactAnswer.ok
  \/ ExactAnswer.ids = <<>> /\ (~ApproxAnswer.ok \/ ApproxAnswer.ids = <<>>)
ResolvedId == IF ExactAnswer.ids # <<>> THEN ExactAnswer.ids[1] ELSE ApproxAnswer.ids[1]

MappedLabels == {DF.classes_map[i]._label_norm : i \in DOMAIN DF.classes_map}
AllowedLabels == {DF.allowed_class[i]._label_norm : i \in DOMAIN DF.allowed_class}

\* resolved to exactly one ingredient, none of whose labels is mapped or allowed
SingleUnmapped ==
  /\ ~Unresolvable
  /\ SVC.related[ResolvedId].ok
  /\ Len(SVC.related[ResolvedId].ins) = 1
  /\ LET cl == SVC.classes[SVC.related[ResolvedId].ins[1].rxcui]
     IN ~cl.ok \/ cl.labels \cap (MappedLabels \cup AllowedLabels) = {}

NoLocalRecord ==
  /\ \A tab \in SixTables : ~InTable(tab)
  /\ ~InTable("cache_sub")
  /\ ProductRows = {}

\* C3: a term with no tier, cache or product record that the lookup service
\* does not resolve, or resolves to one ingredient whose labels are neither
\* mapped nor allowed, gets Final red.
C3_FailClosed ==
  (Queried /\ NoLocalRecord /\ (Unresolvable \/ SingleUnmapped)) => FinalColor(res, "red")

C3_Witness ==
  /\ Queried /\ NoLocalRecord /\ SingleUnmapped
  /\ SVC.classes[SVC.related[ResolvedId].ins[1].rxcui].labels = {"other"}
  /\ FinalColor(res, "red")

\* the requests judge makes for the term, and whether one of them failed
RelatedAnswer == SVC.related[ResolvedId]
ClassifiedId ==
  IF RelatedAnswer.ok /\ RelatedAnswer.ins # <<>> THEN RelatedAnswer.ins[1].rxcui ELSE ResolvedId
SomeLookupFailed ==
  \/ ~ExactAnswer.ok
  \/ ExactAnswer.ok /\ ExactAnswer.ids = <<>> /\ ~ApproxAnswer.ok
  \/ ~Unresolvable /\ ~RelatedAnswer.ok
  \/ ~Unresolvable /\ ~(RelatedAnswer.ok /\ Len(RelatedAnswer.ins) >= 2)
       /\ ~SVC.classes[ClassifiedId].ok

\* C4 as stated: when a request to the lookup service fails (name search,
\* ingredients or class labels), the verdict is that of an unresolvable term,
\* Final red, never green, yellow or NeedMore.
C4_Original ==
  (Queried /\ NoLocalRecord /\ SVC.requests /\ SomeLookupFailed) => FinalColor(res, "red")

\* the three steps taken apart: a failed name search and a failed class
\* request end in Final red, which a failed ingredient request does not
C4_SearchOrClassFailure ==
  (Queried /\ NoLocalRecord /\ SVC.requests /\ SomeLookupFailed
     /\ (Unresolvable \/ RelatedAnswer.ok))
    => FinalColor(res, "red")

\* ------------------------------------------------------------------------
\* Composite products
\* ------------------------------------------------------------------------
HasEarlierRecord(n) ==
  \E tab \in SixTables \cup {"cache_sub"} :
    \E i \in DOMAIN DF[tab] : DF[tab][i].inn = n \/ n \in DF[tab][i].aliases

\* list_name of the first product row of the name, <<>> without one
ProductList(n) ==
  LET rows == {i \in DOMAIN DF.cache_prod :
                 DF.cache_prod[i].brand_name = n \/ n \in DF.cache_prod[i].aliases}
  IN IF rows = {} THEN <<>>
     ELSE DF.cache_prod[CHOOSE i \in rows : \A j \in rows : i <= j].list_name

\* the ingredient names of the lookup service when it resolves the term to
\* two or more ingredients
ExternalList ==
  IF ~Unresolvable /\ RelatedAnswer.ok /\ Len(RelatedAnswer.ins) >= 2
  THEN [k \in 1..Len(RelatedAnswer.ins) |-> RelatedAnswer.ins[k].inn]
  ELSE <<>>

Components == IF ProductList(TermNorm) # <<>> THEN ProductList(TermNorm) ELSE ExternalList

IsCompositeQuery == Queried /\ ~HasEarlierRecord(TermNorm) /\ Components # <<>>

\* the verdict of one ingredient: the nested call the decomposition makes
IngredientVerdict(n) ==
  judgeT(DF, SVC, n, ctx.sport_code, _ensure_period(ctx.period), _canonical_route(ctx.route),
         ctx.dose_24h, 1).res

\* reasons of judge.py that denote an unknown or unresolved substance
UnknownReasons ==
  {"Not found in external data (S0). Possibly unapproved.", "Unknown/Unmapped class (S0).",
   "Not found (S0). Possibly unapproved.", "Unknown/Unapproved (S0) via cache.",
   "Unknown/Unapproved (S0).", "Unknown section (S0)."}

IsUnknown(v) == FinalColor(v, "red") /\ \E k \in DOMAIN v.reason : v.reason[k] \in UnknownReasons
IsHardRed(v) == FinalColor(v, "red") /\ ~IsUnknown(v)
IsGreenOrYellow(v) == FinalColor(v, "green") \/ FinalColor(v, "yellow")

RecursionLimitVerdict == _out("red", <<"Recursion limit reached.">>)

C7_HardRedWins ==
  (IsCompositeQuery /\ \E i \in DOMAIN Components : IsHardRed(IngredientVerdict(Components[i])))
    => FinalColor(res, "red")

C7_Witness ==
  /\ IsCompositeQuery /\ Len(Components) = 3
  /\ IngredientVerdict(Components[1]).status = "ask"
  /\ FinalColor(IngredientVerdict(Components[2]), "green")
  /\ IsHardRed(IngredientVerdict(Components[3]))
  /\ FinalColor(res, "red")

\* C8 as stated: with one unknown ingredient X and every other ingredient
\* Final green or yellow, the product gets Final red with the aggregate
\* undetermined-components reason naming X, not X's own verdict.
C8_Original ==
  (/\ IsCompositeQuery
   /\ \E i \in DOMAIN Components :
        /\ IsUnknown(IngredientVerdict(Components[i]))
        /\ \A j \in DOMAIN Components \ {i} : IsGreenOrYellow(IngredientVerdict(Components[j])))
    => /\ FinalColor(res, "red")
       /\ res.reason[1] = "undetermined components:"
       /\ \A i \in DOMAIN Components :
            IsUnknown(IngredientVerdict(Components[i]))
              => \E k \in DOMAIN res.reason : res.reason[k] = Components[i]

\* the needs of the ingredients from position i on, in list order
RECURSIVE NeedsFrom(_)
NeedsFrom(i) ==
  IF i > Len(Components) THEN <<>>
  ELSE LET v == IngredientVerdict(Components[i])
       IN (IF v.status = "ask" THEN v.need ELSE <<>>) \o NeedsFrom(i + 1)

FirstIndex(needs, f) ==
  CHOOSE k \in DOMAIN needs : needs[k].field = f /\ \A m \in 1..(k - 1) : needs[m].field # f

\* need lists every requested field once, in first-encountered order, with
\* the entry of its first occurrence
MergedOnce(need, all) ==
  /\ {need[k].field : k \in DOMAIN need} = {all[k].field : k \in DOMAIN all}
  /\ \A k \in DOMAIN need : need[k] = all[FirstIndex(all, need[k].field)]
  /\ \A k, m \in DOMAIN need :
       k < m => FirstIndex(all, need[k].field) < FirstIndex(all, need[m].field)

\* C9 as stated: when ingredients return NeedMore and no ingredient is a hard
\* red, the product gets NeedMore, provisional yellow, with the merged fields.
C9_Original ==
  (/\ IsCompositeQuery
   /\ \E i \in DOMAIN Components : IngredientVerdict(Components[i]).status = "ask"
   /\ \A i \in DOMAIN Components : ~IsHardRed(IngredientVerdict(Components[i])))
    => /\ res.status = "ask"
       /\ res.provisional_color = "yellow"
       /\ MergedOnce(res.need, NeedsFrom(1))

\* the same with no red ingredient at all, which is what judge.py provides
C9_NoRedAtAll ==
  (/\ IsCompositeQuery
   /\ \E i \in DOMAIN Components : IngredientVerdict(Components[i]).status = "ask"
   /\ \A i \in DOMAIN Components : ~FinalColor(IngredientVerdict(Components[i]), "red"))
    => /\ res.status = "ask"
       /\ res.provisional_color = "yellow"
       /\ MergedOnce(res.need, NeedsFrom(1))

\* C10 as stated: when every ingredient is Final green or yellow the product
\* is Final yellow if an ingredient is yellow and Final green otherwise.
C10_Original ==
  (IsCompositeQuery /\ \A i \in DOMAIN Components : IsGreenOrYellow(IngredientVerdict(Components[i])))
    => FinalColor(res,
                  IF \E i \in DOMAIN Components :
                       FinalColor(IngredientVerdict(Components[i]), "yellow")
                  THEN "yellow" ELSE "green")

\* ------------------------------------------------------------------------
\* Tier vocabulary
\* ------------------------------------------------------------------------
TierOrder ==
  <<"always_green", "always_red", "ask_route_and_dose", "ask_period", "ask_period_and_route",
    "ask_period_and_urine_caution", "cache_sub">>

\* the first table, in the order of the cascade, that holds the term
IsFirstTable(tab) ==
  \E k \in DOMAIN TierOrder :
    TierOrder[k] = tab /\ InTable(tab) /\ \A j \in 1..(k - 1) : ~InTable(TierOrder[j])

\* the row the engine reads: the first of the table that holds the term
TermRow(tab) ==
  LET hits == {i \in DOMAIN DF[tab] : DF[tab][i].inn = TermNorm \/ TermNorm \in DF[tab][i].aliases}
  IN DF[tab][CHOOSE i \in hits : \A j \in hits : i <= j]

Period == _ensure_period(ctx.period)
Route == _canonical_route(ctx.route)

Requests(v, f) == v.status = "ask" /\ \E k \in DOMAIN v.need : v.need[k].field = f

\* the rule of the sports table for the caller's sport, None without a row
CallerSportRule ==
  LET rs == {i \in DOMAIN DF.sports : StripUpper(DF.sports[i].sport_code) = StripUpper(ctx.sport_code)}
  IN IF rs = {} THEN None
     ELSE StripLower(DF.sports[CHOOSE i \in rs : \A j \in rs : i <= j].prohibited_period)

P1InPeriodTier ==
  Queried /\ IsFirstTable("ask_period") /\ TermRow("ask_period").section_code = "P1"
P1InCache ==
  Queried /\ IsFirstTable("cache_sub")
    /\ StripUpper(TermRow("cache_sub").mapped_section_code) = "P1"

P1Verdict ==
  /\ CallerSportRule = "both" => FinalColor(res, "red")
  /\ (CallerSportRule = "in" /\ Period = "in") => FinalColor(res, "red")
  /\ (CallerSportRule = "in" /\ Period = "out") => FinalColor(res, "green")
  /\ (CallerSportRule = "in" /\ Period = None) => Requests(res, "period")

\* C11 as stated: a P1 substance, found in the Period table or in the cache,
\* is Final red for every period when the rule of the caller's sport is both;
\* when the rule is in it is red for period in, green for period out and
\* NeedMore requesting period when period is unset.
C11_Original == (P1InPeriodTier \/ P1InCache) => P1Verdict

\* the cache half of it, which judge.py provides
C11_CacheP1 == P1InCache => P1Verdict

\* ------------------------------------------------------------------------
\* Route+Dose tier
\* ------------------------------------------------------------------------
InRouteDoseTier == Queried /\ IsFirstTable("ask_route_and_dose")
RouteDoseRecord == TermRow("ask_route_and_dose")
RoutePermitted ==
  ctx.route # None /\ Route \in RouteDoseRecord.permitted_route
    /\ Route \notin RouteDoseRecord.prohibited_route
HasMaximum == RouteDoseRecord.maximum_dose # NoDose
HasThreshold == RouteDoseRecord.has_urine_column

\* C12: in the Route+Dose tier with a permitted route and a maximum dose, a
\* dose equal to (or below) the maximum is not red and is answered with a
\* Final verdict, and every dose above the maximum is Final red.
C12_DoseBoundary ==
  (InRouteDoseTier /\ RoutePermitted /\ HasMaximum /\ ctx.dose_24h # NoDose)
    => /\ ctx.dose_24h <= RouteDoseRecord.maximum_dose
            => res.status = "final" /\ res.color # "red"
       /\ ctx.dose_24h > RouteDoseRecord.maximum_dose => FinalColor(res, "red")

C12_Witness ==
  /\ InRouteDoseTier /\ RoutePermitted /\ HasMaximum
  /\ ctx.dose_24h = RouteDoseRecord.maximum_dose
  /\ FinalColor(res, "green")

\* ------------------------------------------------------------------------
\* Section lookup by classification code (judge_legacy.py)
\* ------------------------------------------------------------------------
LegacyCacheFirst ==
  Queried /\ LegacyInTable("cache_sub") /\ \A tab \in SixTables : ~LegacyInTable(tab)

LegacyCode ==
  LET hits == {i \in DOMAIN DF.cache_sub : DF.cache_sub[i].inn = LegacyTerm}
  IN DF.cache_sub[CHOOSE i \in hits : \A j \in hits : i <= j].atc_code

IndexedPrefixes == UNION {DF.sections[i].atc_code_prefix : i \in DOMAIN DF.sections}

IsLongestPrefix(k) ==
  /\ k \in IndexedPrefixes /\ IsPrefix(k, LegacyCode)
  /\ \A h \in IndexedPrefixes : IsPrefix(h, LegacyCode) => Len(h) <= Len(k)

\* the prefix and the section a section verdict reports in its reason
AtcOpeners ==
  {"class (ATC", "period rule (ATC", "S9 prohibited route in-competition (ATC", "S9 permitted (ATC"}
ReportsPrefix(v, k) ==
  \E a \in DOMAIN v.reason :
    v.reason[a] \in AtcOpeners /\ SubSeq(v.reason, a + 1, Len(v.reason) - 1) = k
ReportsSection(v, sec) ==
  IF sec = "S9"
  THEN v.reason[1] \in {"S9 prohibited route in-competition (ATC", "S9 permitted (ATC"}
  ELSE v.reason[1] = sec

\* C13: the section looked up for a classification code is that of the longest
\* indexed prefix that is a textual prefix of the code.
C13_LongestPrefix ==
  LegacyCacheFirst =>
    \A k \in IndexedPrefixes :
      IsLongestPrefix(k) =>
        /\ resLegacy.status = "final"
        /\ ReportsPrefix(resLegacy, k)
        /\ \E i \in DOMAIN DF.sections :
             k \in DF.sections[i].atc_code_prefix
               /\ ReportsSection(resLegacy, DF.sections[i].section_code)

C13_Witness ==
  /\ LegacyCacheFirst /\ LegacyCode = <<"C", "0", "7", "A", "B", "0", "2">>
  /\ \E i, j \in DOMAIN DF.sections :
       /\ <<"C", "0", "7">> \in DF.sections[i].atc_code_prefix
       /\ DF.sections[i].section_code = "S6"
       /\ <<"C", "0", "7", "A", "B">> \in DF.sections[j].atc_code_prefix
       /\ DF.sections[j].section_code = "S1"
  /\ <<"C", "0", "7", "A", "B", "0", "2">> \notin IndexedPrefixes
  /\ IsLongestPrefix(<<"C", "0", "7", "A", "B">>)
  /\ FinalColor(resLegacy, "red")
  /\ ReportsPrefix(resLegacy, <<"C", "0", "7", "A", "B">>)
  /\ ReportsSection(resLegacy, "S1")

\* ------------------------------------------------------------------------
\* Order of the cascade
\* ------------------------------------------------------------------------
\* what one tier answers for the query, taken alone
TierVerdict(tab) ==
  CASE tab = "always_green" -> AlwaysGreenTier(DF, TermNorm)
    [] tab = "always_red" -> AlwaysRedTier(DF, TermNorm)
    [] tab = "ask_route_and_dose" -> AskRouteAndDoseTier(DF, TermNorm, Route, ctx.dose_24h)
    [] tab = "ask_period" -> AskPeriodTier(DF, TermNorm, Period)
    [] tab = "ask_period_and_route" -> AskPeriodAndRouteTier(DF, TermNorm, Period, Route)
    [] tab = "ask_period_and_urine_caution" -> AskPeriodAndUrineTier(DF, TermNorm, Period)
    [] tab = "cache_sub" -> _judge_by_cache(DF, TermNorm, ctx.sport_code, Period, Route, ctx.dose_24h)

ProductVerdict ==
  _judge_by_brand_cache(DF, SVC, TermNorm, ctx.sport_code, Period, Route, ctx.dose_24h, 0).res
ExternalVerdict ==
  _judge_by_external(DF, SVC, TermNorm, ctx.sport_code, Period, Route, ctx.dose_24h, 0).res

NoTable == \A tab \in SixTables : ~InTable(tab)

KnownSections ==
  {"ALLOWED", "S0", "P1", "S1", "S2", "S3", "S4", "S5", "S6", "S7", "S8", "S9"}

\* a cache record the cache tier answers for, and a product record with
\* ingredients
CacheClassified ==
  InTable("cache_sub") /\ StripUpper(TermRow("cache_sub").mapped_section_code) \in KnownSections
ProductListed == ProductList(TermNorm) # <<>>

\* the order with every record counted as a match, whatever it holds: fails on
\* a cache record whose section is blank or not a known one and on a product
\* record without ingredients, which the code passes over
TierOrderAnyRecord ==
  Queried =>
    /\ \A k \in DOMAIN TierOrder : IsFirstTable(TierOrder[k]) => res = TierVerdict(TierOrder[k])
    /\ (NoTable /\ ~InTable("cache_sub") /\ ProductRows # {}) => res = ProductVerdict
    /\ (NoLocalRecord /\ ~Unresolvable) => res = ExternalVerdict
    /\ (NoLocalRecord /\ Unresolvable) => FinalColor(res, "red")

CacheRecordPassedOver ==
  /\ Queried /\ NoTable /\ InTable("cache_sub") /\ ~CacheClassified /\ ProductListed
  /\ res = ProductVerdict

\* ------------------------------------------------------------------------
\* Converter completeness
\* ------------------------------------------------------------------------
PdfNames == extract_names_from_pdf(pdf)
YamlNames == extract_names_from_yaml(yaml.data)

\* C16 as stated: for every document the names of the converter's output are
\* the names of the document's bulleted lines, none missing and none extra.
C16_Original == yaml.written => YamlNames = PdfNames

\* a document whose bullet lines all follow a section heading and hold one
\* plain name each, with or without a remark in parentheses after a space
PlainBullets == {<<"bullet", " ", "a">>, <<"bullet", " ", "a", " ", "(", "b", ")">>, <<"-", " ", "b">>}
IsBulletLine(line) == BULLET_LINE(strip(line)) # <<>>
PlainDocument ==
  /\ \A i \in DOMAIN pdf : IsBulletLine(pdf[i]) => pdf[i] \in PlainBullets
  /\ \A i \in DOMAIN pdf : IsBulletLine(pdf[i]) => \E j \in 1..(i - 1) : SECTION_RE(strip(pdf[j]))

\* on such documents the converter is complete
PlainDocumentComplete == (yaml.written /\ PlainDocument) => YamlNames = PdfNames

PlainDocumentConverted ==
  /\ yaml.written /\ PlainDocument /\ YamlNames = {<<"a">>, <<"b">>}

\* ------------------------------------------------------------------------
\* Route+Dose: unsupported routes, order of the checks, urine threshold
\* ------------------------------------------------------------------------
RouteProhibited == ctx.route # None /\ Route \in RouteDoseRecord.prohibited_route
RouteUnsupported ==
  /\ ctx.route # None
  /\ Route \notin RouteDoseRecord.permitted_route
  /\ Route \notin RouteDoseRecord.prohibited_route
DoseWithinMaximum ==
  HasMaximum => (ctx.dose_24h # NoDose /\ ctx.dose_24h <= RouteDoseRecord.maximum_dose)

\* C17 as stated: a supplied route in neither the permitted nor the prohibited
\* set of the record yields Final red, for every shape of the record, an
\* empty permitted set included.
C17_Original == (InRouteDoseTier /\ RouteUnsupported) => FinalColor(res, "red")

\* the part of it that holds: with a non-empty permitted set and nothing left
\* to ask, the unsupported route is Final red
UnsupportedRouteRed ==
  (InRouteDoseTier /\ RouteUnsupported /\ RouteDoseRecord.permitted_route # {}
     /\ (HasMaximum => ctx.dose_24h # NoDose))
    => res = _out("red", <<"Unsupported route for this substance.">>)

\* an unsupported route that reaches the green outcome
UnsupportedRouteGreen == InRouteDoseTier /\ RouteUnsupported /\ FinalColor(res, "green")

\* C18 as stated: a supplied route in the prohibited set yields Final red
\* whether or not dose_24h has been supplied; NeedMore(dose_24h) is never the
\* answer for such a route.
C18_Original == (InRouteDoseTier /\ RouteProhibited) => FinalColor(res, "red")

\* the part of it that holds: Final red once nothing is left to ask
ProhibitedRouteRedWithDose ==
  (InRouteDoseTier /\ RouteProhibited /\ (HasMaximum => ctx.dose_24h # NoDose))
    => res = _out("red", <<"Prohibited by route.">>)

\* the legacy engine checks its single permitted route before asking the dose
LegacyRouteBeforeDose ==
  (InRouteDoseTier /\ ctx.route # None /\ RouteDoseRecord.permitted_route # {}
     /\ ctx.route \notin RouteDoseRecord.permitted_route)
    => FinalColor(resLegacy, "red")

\* C19 as stated: for a record with a urine threshold, a permitted route and a
\* dose within the maximum, period unset gives NeedMore(period), period=in
\* Final yellow and period=out Final green; green without consulting period
\* is returned only when the record has no threshold.
C19_Original ==
  (InRouteDoseTier /\ RoutePermitted /\ DoseWithinMaximum /\ HasThreshold)
    => /\ Period = None => Requests(res, "period")
       /\ Period = "in" => FinalColor(res, "yellow")
       /\ Period = "out" => FinalColor(res, "green")

\* what the engine does instead: green whatever the period
ThresholdIgnored ==
  (InRouteDoseTier /\ RoutePermitted /\ DoseWithinMaximum)
    => res = _out("green", <<"Within permitted route/dose.">>)

\* ------------------------------------------------------------------------
\* Period canonicalization
\* ------------------------------------------------------------------------
InPeriodTier == Queried /\ \E tab \in PeriodTables : IsFirstTable(tab)
Trimmed == _norm(ctx.period)
InAliases == {"in", "in-comp", "incompetition", "in_comp", "comp"}
OutAliases == {"out", "out-comp", "out_comp"}
PeriodTierVerdict(p) == _judge_by_6csv(DF, TermNorm, ctx.sport_code, p, Route, ctx.dose_24h)

AliasTakenAsIn ==
  /\ InPeriodTier /\ IsFirstTable("ask_period") /\ ctx.period = "COMP"
  /\ FinalColor(res, "red")

\* ------------------------------------------------------------------------
\* Period+Route
\* ------------------------------------------------------------------------
InPeriodRouteTier == Queried /\ IsFirstTable("ask_period_and_route")
PeriodRouteRecord == TermRow("ask_period_and_route")
DeclaresNeither ==
  PeriodRouteRecord.permitted_route = {} /\ PeriodRouteRecord.prohibited_route = {}
SectionRuleS9 == S9Rows(DF)

\* the route sets in force: the record's own, or the Section Rule's when the
\* record declares neither
PermittedInForce ==
  IF DeclaresNeither /\ SectionRuleS9 # <<>> THEN SectionRuleS9[1]._permitted_routes
  ELSE PeriodRouteRecord.permitted_route
ProhibitedInForce ==
  IF DeclaresNeither /\ SectionRuleS9 # <<>> THEN SectionRuleS9[1]._prohibited_routes
  ELSE PeriodRouteRecord.prohibited_route

RequestedFields(v) == [k \in DOMAIN v.need |-> v.need[k].field]

OwnRoutesAsked ==
  /\ InPeriodRouteTier /\ ~DeclaresNeither /\ Period = "in" /\ Route = None
  /\ res.status = "ask" /\ res.need[1].options = {"inhaled", "oral"}
ProhibitedRouteInCompetition ==
  /\ InPeriodRouteTier /\ ctx.route = "PO" /\ Period = "in" /\ FinalColor(res, "red")

\* ------------------------------------------------------------------------
\* The two section dispatches
\* ------------------------------------------------------------------------
CacheFirst == Queried /\ IsFirstTable("cache_sub")
CachedSection == TermRow("cache_sub").mapped_section_code
FallbackDispatch ==
  _judge_by_cachelike_section(DF, CachedSection, Period, Route, ctx.sport_code)
StatusAndColor(v) ==
  IF v.status = "final" THEN <<"final", v.color>>
  ELSE IF v.status = "ask" THEN <<"ask", v.provisional_color>>
  ELSE <<v.status>>

\* C22 as stated: for a cached substance of any section code, codes outside
\* ALLOWED, S0..S9, P1 included, the verdict has the status and color the
\* fallback's section dispatch gives for that code, period, route and sport;
\* an unrecognized code is red.
C22_Original == CacheFirst => StatusAndColor(res) = StatusAndColor(FallbackDispatch)

\* the part of it that holds: the two dispatches agree on the known codes,
\* in status, color and requested field
KnownSectionsAgree ==
  (CacheFirst /\ CacheClassified)
    => /\ StatusAndColor(res) = StatusAndColor(FallbackDispatch)
       /\ res.status = "ask" => res.need = FallbackDispatch.need

\* an unrecognized code the cache tier passes over and a later tier clears
UnrecognizedCodeGreen ==
  /\ CacheFirst /\ CachedSection = "S10"
  /\ FinalColor(FallbackDispatch, "red") /\ FinalColor(res, "green")

\* ------------------------------------------------------------------------
\* External fallback: one ingredient
\* ------------------------------------------------------------------------
SingleIngredient ==
  /\ Queried /\ NoLocalRecord /\ ~Unresolvable
  /\ RelatedAnswer.ok /\ Len(RelatedAnswer.ins) = 1

\* the class labels the service reports for the ingredient, none when the
\* request fails
IngredientLabels ==
  LET cl == SVC.classes[RelatedAnswer.ins[1].rxcui]
  IN IF cl.ok THEN {StripLower(lab) : lab \in cl.labels} ELSE {}

\* the section of the first row of the Classification Map that has one of
\* the labels
MappedSection ==
  LET hits == {i \in DOMAIN DF.classes_map : DF.classes_map[i]._label_norm \in IngredientLabels}
  IN DF.classes_map[CHOOSE i \in hits : \A j \in hits : i <= j].mapped_section_code

\* C23: for a term the service resolves to exactly one ingredient, a label
\* with an exact match in the Classification Map gives the section dispatch
\* of the mapped code, whether or not a label is also in the Allowed-Class
\* set; with no label mapped, a label of the Allowed-Class set gives Final
\* green; otherwise the verdict is Final red.
C23_SingleIngredient ==
  SingleIngredient =>
    IF IngredientLabels \cap MappedLabels # {}
    THEN res = _judge_by_cachelike_section(DF, MappedSection, Period, Route, ctx.sport_code)
    ELSE IF IngredientLabels \cap AllowedLabels # {} THEN FinalColor(res, "green")
    ELSE FinalColor(res, "red")

\* a label of the map beside a label of the Allowed-Class set
C23_Witness ==
  /\ SingleIngredient /\ IngredientLabels = {"stimulant", "nsaid"}
  /\ MappedSection = "S6" /\ Period = "in"
  /\ res = _out("red", <<"S6", "period rule.">>)

AllowedClassGreen ==
  /\ SingleIngredient /\ IngredientLabels = {"nsaid"} /\ FinalColor(res, "green")

\* ------------------------------------------------------------------------
\* Acyclic nesting and the recursion limit
\* ------------------------------------------------------------------------
\* the names judge decomposes n into: the list of its product record, or the
\* ingredients of the lookup service when it resolves n to two or more
ExternalParts(n) ==
  LET rxcui == _rxnorm_find_rxcui(SVC, n)
      ins == _rxnorm_related_in(SVC, rxcui)
  IN IF SVC.requests /\ rxcui # None /\ Len(ins) >= 2 THEN {ins[k].inn : k \in DOMAIN ins}
     ELSE {}

Parts(n) ==
  IF HasEarlierRecord(n) THEN {}
  ELSE IF ProductList(n) # <<>> THEN {ProductList(n)[k] : k \in DOMAIN ProductList(n)}
  ELSE IF n \in AllNames THEN ExternalParts(n)
  ELSE {}

RECURSIVE PartsWithin(_, _)
PartsWithin(S, k) ==
  IF k = 0 THEN S ELSE PartsWithin(S \cup UNION {Parts(n) : n \in S}, k - 1)

Descendants(n) == PartsWithin(Parts(n), Len(DF.cache_prod) + 1)

\* no name is among its own ingredients, at any level
AcyclicData == \A n \in {TermNorm} \cup Descendants(TermNorm) : n \notin Descendants(n)

\* levels of decomposition below n (acyclic data only)
RECURSIVE NestingDepth(_)
NestingDepth(n) ==
  IF Parts(n) = {} THEN 0
  ELSE LET ds == {NestingDepth(m) : m \in Parts(n)}
       IN 1 + CHOOSE d \in ds : \A e \in ds : e <= d

LimitFired == res = RecursionLimitVerdict \/ \E d \in calls : d > MAX_DEPTH

\* C24 as stated: on acyclic product-composition data no evaluation returns
\* the recursion-limit verdict.
C24_Original == (Queried /\ AcyclicData) => ~LimitFired

\* C24 amended: on acyclic data whose nesting below the queried term is at
\* most 5 levels deep, judge is never entered beyond depth 5 and no
\* evaluation returns the recursion-limit verdict.
C24_ShallowAcyclic ==
  (Queried /\ AcyclicData /\ NestingDepth(TermNorm) <= MAX_DEPTH) => ~LimitFired

C24_Witness ==
  /\ Queried /\ AcyclicData /\ NestingDepth(TermNorm) = MAX_DEPTH
  /\ calls = 0..MAX_DEPTH
  /\ FinalColor(res, "green")

\* an acyclic chain of six products ends in the recursion-limit verdict
DeepChainHitsLimit ==
  /\ Queried /\ AcyclicData /\ NestingDepth(TermNorm) = MAX_DEPTH + 1
  /\ Len(DF.cache_prod) = MAX_DEPTH + 1 /\ ProductList("q6") = <<"grn">>
  /\ res = RecursionLimitVerdict

\* ------------------------------------------------------------------------
\* The ask protocol
\* ------------------------------------------------------------------------
\* a field of the query that holds no valid value
FieldUnset(c, f) ==
  CASE f = "period" -> _ensure_period(c.period) = None
    [] f = "route" -> _canonical_route(c.route) = None
    [] f = "dose_24h" -> c.dose_24h = NoDose

\* the valid values a caller may supply for a requested field
ValidValues(n) == IF n.field = "dose_24h" THEN 1..MaxDoseInput ELSE n.options

SetField(c, f, x) ==
  CASE f = "period" -> [c EXCEPT !.period = x]
    [] f = "route" -> [c EXCEPT !.route = x]
    [] f = "dose_24h" -> [c EXCEPT !.dose_24h = x]

\* the queries a caller can re-invoke with: c plus a valid value for every
\* field of need from position i on
RECURSIVE Resubmissions(_, _, _)
Resubmissions(c, need, i) ==
  IF i > Len(need) THEN {c}
  ELSE UNION {Resubmissions(SetField(c, need[i].field, x), need, i + 1) :
                x \in ValidValues(need[i])}

\* verdict v of query c is Final, or becomes Final within n re-invocations
\* whatever valid values the caller supplies
RECURSIVE FinalWithin(_, _, _)
FinalWithin(c, v, n) ==
  \/ v.status = "final"
  \/ /\ n > 0
     /\ \A c2 \in Resubmissions(c, v.need, 1) :
          FinalWithin(c2, judge(DF, SVC, c2.term, c2.sport_code, c2.period, c2.route, c2.dose_24h),
                      n - 1)

\* C25: a NeedMore requests at least one field and only fields that hold no
\* valid value in the query, and a caller that re-invokes with the same term
\* and sport and valid values for all requested fields gets a Final verdict
\* after at most three re-invocations, for substances and products alike.
C25_AskProgress ==
  Queried =>
    /\ res.status = "ask" =>
         /\ res.need # <<>>
         /\ \A k \in DOMAIN res.need : FieldUnset(ctx, res.need[k].field)
    /\ res.status \in {"ask", "final"}
    /\ FinalWithin(ctx, res, 3)

\* a product whose ingredients ask for period, then for nothing more
C25_Witness ==
  /\ IsCompositeQuery /\ res.status = "ask" /\ Len(res.need) >= 2
  /\ \A k \in DOMAIN res.need : FieldUnset(ctx, res.need[k].field)
  /\ FinalWithin(ctx, res, 1)

\* a substance that needs two re-invocations: period, then route
TwoRounds ==
  /\ InPeriodRouteTier /\ res.status = "ask" /\ ~FinalWithin(ctx, res, 1) /\ FinalWithin(ctx, res, 2)

\* ------------------------------------------------------------------------
\* Route options taken back as the route
\* ------------------------------------------------------------------------
\* the query is judged on its route by one of the two route tiers
RouteJudged == InRouteDoseTier \/ (InPeriodRouteTier /\ Period = "in")
RoutePermittedSet ==
  IF InRouteDoseTier THEN RouteDoseRecord.permitted_route ELSE PermittedInForce
RouteProhibitedSet ==
  IF InRouteDoseTier THEN RouteDoseRecord.prohibited_route ELSE ProhibitedInForce

\* the route of the query is, as typed, a member of the set: the spelling the
\* NeedMore offered
OptionFromPermitted ==
  ctx.route \in RoutePermittedSet /\ ctx.route \notin RouteProhibitedSet
OptionFromProhibited == ctx.route \in RouteProhibitedSet

RouteRejections ==
  {<<"Prohibited by route.">>, <<"Unsupported route for this substance.">>,
   <<"Prohibited route in-competition.">>}
Rejected(v) == FinalColor(v, "red") /\ v.reason \in RouteRejections

\* C26 as stated: a route option that came from the record's permitted set
\* is never rejected as unsupported or prohibited when it is sent back as the
\* route, and one that came from the prohibited set always yields red.
C26_Original ==
  RouteJudged =>
    /\ OptionFromPermitted => ~Rejected(res)
    /\ OptionFromProhibited => FinalColor(res, "red")

\* the part of it that holds: options the canonicalization leaves as they
\* are, once nothing is left to ask
UnchangedOptionsRoundTrip ==
  (RouteJudged /\ _canonical_route(ctx.route) = ctx.route /\ res.status = "final")
    => /\ OptionFromPermitted => ~Rejected(res)
       /\ OptionFromProhibited => FinalColor(res, "red")

\* the permitted option nasal, sent back, is rejected; the prohibited option
\* po, sent back, is cleared
PermittedOptionRejected ==
  /\ InRouteDoseTier /\ RouteDoseRecord.permitted_route = {"nasal"} /\ ctx.route = "nasal"
  /\ res = _out("red", <<"Unsupported route for this substance.">>)
ProhibitedOptionGreen ==
  /\ RouteJudged /\ RouteProhibitedSet = {"po"} /\ ctx.route = "po" /\ FinalColor(res, "green")

\* ------------------------------------------------------------------------
\* Period-dependent sections
\* ------------------------------------------------------------------------
\* the section the substance cache or the class labels give the queried term
ClassifiedSection ==
  IF CacheFirst THEN StripUpper(CachedSection)
  ELSE IF SingleIngredient /\ IngredientLabels \cap MappedLabels # {} THEN StripUpper(MappedSection)
  ELSE None
PeriodSections == {"S6", "S7", "S8", "S9"}
PeriodDependent == Queried /\ ClassifiedSection \in PeriodSections

PeriodGivenGreen ==
  /\ PeriodDependent /\ ClassifiedSection = "S8" /\ Period = "out" /\ FinalColor(res, "green")

\* the older engine clears a period-dependent cached substance without a
\* period
LegacyGreenWithoutPeriod ==
  /\ PeriodDependent /\ ctx.period = None /\ FinalColor(resLegacy, "green")

\* ------------------------------------------------------------------------
\* The front end's context
\* ------------------------------------------------------------------------
\* the step passes a query for another term than the step before it
NewQuery == ctx'.term # ctx.term /\ ctx'.term # None /\ ctx'.term # ""
AnswersUnset(c) == c.period = None /\ c.route = None /\ c.dose_24h = NoDose
ResetPressed == ctx.term # None /\ ctx'.term = None

\* C28 as stated: a query for a new term is passed to the Engine with
\* period, route and dose_24h unset, answers collected for an earlier term
\* are not resubmitted with it, and Reset sets all five fields to unset.
C28_Original ==
  [][/\ NewQuery => AnswersUnset(ctx')
     /\ ResetPressed => ctx' = IdleCtx]_vars

\* the part of it that holds: Reset clears the five fields, and Start / Retry
\* changes none of period, route and dose_24h
ResetClears == [][ResetPressed => ctx' = IdleCtx]_vars
StartKeepsAnswers ==
  [][ctx'.term # ctx.term
       => \/ ctx'.period = ctx.period /\ ctx'.route = ctx.route /\ ctx'.dose_24h = ctx.dose_24h
          \/ ctx' = IdleCtx]_vars

\* the period answered for another term decides the urine-caution query: no
\* question is put for it
CarriedAnswer ==
  /\ ctx.term = "uri" /\ ctx.period = "out" /\ ctx.route = "inhaled"
  /\ FinalColor(resLegacy, "green")

====
